---- MODULE Spec2Model ----
(***************************************************************************)
(* A model of Geecache: the two eviction containers (lru.LRUCache and      *)
(* lfu.LFUCache), the single-flight group (singleflight.Group.Do), the     *)
(* group controller (geecache.Group.Get / load / getLocally) and a cluster *)
(* of peers (geecache.Server, Group.getFromPeer, the hot cache).           *)
(*                                                                         *)
(* Time is an integer clock `now`; one tick is half of the group's default *)
(* TTL (time.Second * 60), so the jitter rand.Intn(60) seconds of the      *)
(* recency variant is 0 or 1 tick.  Keys and values are strings, so that   *)
(* len(key) + value.Len() is computed as the code computes it.             *)
(***************************************************************************)
EXTENDS Integers, Sequences, FiniteSets, TLC

\* ------------------------------------------------------------------ bounds

\* The clock stops at MaxTime; an entry is only added when it can expire
\* before the clock stops, so every eviction loop can be followed to its end.
MaxTime == 3

\* The byte budget of the bounded containers under test (maxBytes > 0).
MaxBudget == 5

\* freq of the frequency variant is capped (it grows on every hit).
MaxFreq == 3

\* |nBytes - stored bytes| of the frequency variant is capped.
MaxDrift == 1

\* The number of Do calls the callers start.
MaxCalls == 3

\* Keys and values of the container specifications.
CKeys == {"a", "b", "cc"}
CVals == {"x", "yy"}
TTLs == {1, 2}
\* rand.Intn(60) seconds in ticks of 30 s; 0 is also the version without jitter.
Jitters == {0, 1}
Budgets == {0, MaxBudget}

VARIABLES
    now,        \* time.Now()
    variant,    \* which container is under test: "lru" or "lfu"
    lru,        \* the lru.LRUCache under test
    lruPc,      \* "idle", or "evict": inside the loop at the end of Add
    lruStalled, \* the last RemoveOldest() of the running loop removed nothing
    lfu,        \* the lfu.LFUCache under test
    onEvicted,  \* whether the container under test was given a callback
    lastOp,     \* the last operation called on the container under test
    fired,      \* the calls of OnEvicted made by the last step of an operation
    script,     \* the operations a test has called so far, in order
    pc,         \* where each caller is in Do
    pkey,       \* the key of each caller's Do
    sfMu,       \* singleflight.Group.mu: its holder, or "free"
    sfM,        \* singleflight.Group.m: key -> call
    calls,      \* the call objects allocated so far; a *call is an index
    myCall,     \* the *call each caller holds (c)
    ret,        \* what each caller's last Do returned: <<val, err>>
    role,       \* how each caller's last Do ended: "leader", "follower"
    started,    \* the number of Do / Group.Get calls started
    mainCache,  \* Group.mainCache: the wrapper and its container
    hotCache,   \* Group.hotCache
    mainLock,   \* the caller inside mainCache.add (it holds mu), or "free"
    loadCount,  \* how often the user loader was invoked, per key
    loaded,     \* whether each caller's Get invoked the loader itself
    coMiss,     \* the pairs of Gets of one key that overlapped after both missed
    removed,    \* how often a key's entry left the main cache
    srv,        \* each peer's Server: its ring, its clients, whether it runs
    grp,        \* each peer's Group: caches, keys, peers, single-flight table
    stack,      \* the Get calls in progress: a client's Get and the RPC it waits for
    trace,      \* what the client's Get in progress (or the last one) did, in order
    last,       \* the client's last Get: peer, key, result and what it found
    gets,       \* the number of Gets clients have called on the peers
    fetched,    \* per peer and key, the times of the successful remote fetches
    ring,       \* the consistenthash.Map under test
    ringAdded,  \* the peers of each Add on the ring under test, in the calls' order
    looked,     \* the last Get on the ring under test: its key and its result
    mu,         \* the lock of the process-wide registry of groups
    groups,     \* the registry: the group each name is registered under, 0 for none
    objs,       \* the Group objects made so far; a *Group is an index
    setup,      \* the last call of NewGroup, GetGroup or RegisterPeers and its outcome
    regPc,      \* per task, the RegisterPeers call that has passed its check
    rpc,        \* the inbound RPC a server's Get handler is serving, and its answer
    wrap,       \* the cache wrapper under test
    wmu,        \* the wrapper's RWMutex: its writer and its readers
    wtask,      \* per task, the call of add or get on the wrapper it is in
    wcalls,     \* the calls made on the wrapper so far
    kmap,       \* g.keys of the group whose remote fetches are under test
    ktask,      \* per task, where it is in getFromPeer after the fetch
    kfatal,     \* the runtime has stopped the process for a concurrent map access
    server,     \* the Server whose Start and Stop are under test
    chans,      \* the stop channels made so far, open or closed; a channel is an index
    ltask,      \* per caller, the call on the server it is in and what the last returned
    rtask,      \* per caller, the registry task its Start has spawned and its listener
    exited      \* why the process has ended, "" while it runs

\* The state of the single-flight group and of its callers.
svars == <<pc, pkey, sfMu, sfM, calls, myCall, ret, role, started>>

\* The state of the group controller.
gvars == <<mainCache, hotCache, mainLock, loadCount, loaded, coMiss, removed>>

\* The containers and the clock.
cvars == <<now, variant, lru, lruPc, lruStalled, lfu, onEvicted, lastOp, fired, script>>

\* The peers of a cluster.
cluster == <<srv, grp, stack, trace, last, gets, fetched>>

\* The ring under test.
rvars == <<ring, ringAdded, looked>>

\* The registry of groups and the groups' pickers.
nvars == <<mu, groups, objs, setup, regPc>>

\* The Get handler of a server.
hvars == <<rpc>>

\* The cache wrapper under test.
wvars == <<wrap, wmu, wtask, wcalls>>

\* The KeyStats of a group.
kvars == <<kmap, ktask, kfatal>>

\* The life of a server.
lvars == <<server, chans, ltask, rtask, exited>>

\* The objects under test on their own, outside a group and a cluster.
xvars == <<rvars, nvars, hvars, wvars, kvars, lvars>>

\* All that the containers, the single-flight group and the group controller
\* leave alone.
pvars == <<cluster, xvars>>

vars == <<cvars, svars, gvars, pvars>>

\* ------------------------------------------------------------ helpers

\* len(kv.key) + kv.value.Len()
EntryBytes(e) == Len(e.key) + Len(e.value)

RECURSIVE SumBytes(_)
SumBytes(s) == IF s = <<>> THEN 0 ELSE EntryBytes(Head(s)) + SumBytes(Tail(s))

\* The sequence s without its element at index i.
RemoveAt(s, i) == [j \in 1..(Len(s) - 1) |-> IF j < i THEN s[j] ELSE s[j + 1]]

KeysOf(s) == {s[i].key : i \in 1..Len(s)}

\* A comparison that never finds an entry expired.
BeforeNever(expire, t) == FALSE

\* expire.Before(t)
Before(expire, t) == expire < t

\* ------------------------------------------------- lru.LRUCache (recency)

\* lru.New: an empty list, an empty map, nBytes 0.  ll[1] is the front of the
\* list (most recently used), ll[Len(ll)] its back.
LruNew(maxBytes) == [maxBytes |-> maxBytes, nBytes |-> 0, ll |-> <<>>, cache |-> {}]

\* The list element the map holds for key.
LruIndex(c, key) == CHOOSE i \in 1..Len(c.ll) : c.ll[i].key = key

\* ll.MoveToFront(ele)
MoveToFront(ll, i) == <<ll[i]>> \o RemoveAt(ll, i)

\* LRUCache.RemoveElement
LruRemoveElement(c, i) ==
    [c EXCEPT !.ll = RemoveAt(c.ll, i),
              !.cache = c.cache \ {c.ll[i].key},
              !.nBytes = c.nBytes - EntryBytes(c.ll[i])]

\* LRUCache.RemoveOldest: from the back towards the front, the first element
\* that has expired is removed; none expired, nothing is removed.
LruRemoveOldest(c, t) ==
    LET expired == {i \in 1..Len(c.ll) : Before(c.ll[i].expire, t)}
    IN IF expired = {} THEN c
       ELSE LruRemoveElement(c, CHOOSE i \in expired : \A j \in expired : j <= i)

\* LRUCache.Get
LruGet(c, key, t) ==
    IF key \in c.cache
    THEN LET i == LruIndex(c, key)
         IN IF Before(c.ll[i].expire, t)
            THEN [c |-> LruRemoveElement(c, i), ok |-> FALSE, value |-> ""]
            ELSE [c |-> [c EXCEPT !.ll = MoveToFront(c.ll, i)],
                  ok |-> TRUE, value |-> c.ll[i].value]
    ELSE [c |-> c, ok |-> FALSE, value |-> ""]

\* An Add that always takes the new expiry.
LruInsertOverwrite(c, key, value, expireTime) ==
    IF key \in c.cache
    THEN LET i == LruIndex(c, key)
             upd == [c.ll[i] EXCEPT !.value = value, !.expire = expireTime]
         IN [c EXCEPT !.ll = <<upd>> \o RemoveAt(c.ll, i),
                      !.nBytes = c.nBytes + Len(value) - Len(c.ll[i].value)]
    ELSE [c EXCEPT !.ll = <<[key |-> key, value |-> value, expire |-> expireTime]>> \o c.ll,
                   !.cache = c.cache \cup {key},
                   !.nBytes = c.nBytes + Len(key) + Len(value)]

\* LRUCache.Add up to its eviction loop.
LruInsert(c, key, value, expireTime) ==
    IF key \in c.cache
    THEN LET i == LruIndex(c, key)
             kv == c.ll[i]
             upd == [kv EXCEPT !.value = value,
                               !.expire = IF Before(kv.expire, expireTime)
                                          THEN expireTime ELSE kv.expire]
         IN [c EXCEPT !.ll = <<upd>> \o RemoveAt(c.ll, i),
                      !.nBytes = c.nBytes + Len(value) - Len(kv.value)]
    ELSE [c EXCEPT !.ll = <<[key |-> key, value |-> value, expire |-> expireTime]>> \o c.ll,
                   !.cache = c.cache \cup {key},
                   !.nBytes = c.nBytes + Len(key) + Len(value)]

\* The condition of Add's loop: c.maxBytes != 0 && c.maxBytes < c.nBytes
LruOver(c) == c.maxBytes # 0 /\ c.maxBytes < c.nBytes

\* ------------------------------------------------ container/heap on entryHeap

\* The heap is the Go slice: slot i (from 0) is h[i + 1].
\* A Less that orders the heap by the greatest freq.
LessReversed(h, i, j) == h[i + 1].freq > h[j + 1].freq

\* entryHeap.Less
Less(h, i, j) == h[i + 1].freq < h[j + 1].freq

\* A Swap that exchanges the slots and leaves their index fields as they were.
SwapStale(h, i, j) ==
    [h EXCEPT ![i + 1] = h[j + 1], ![j + 1] = h[i + 1]]

\* entryHeap.Swap: the two slots are exchanged and their index fields set.
Swap(h, i, j) ==
    [h EXCEPT ![i + 1] = [h[j + 1] EXCEPT !.index = i],
              ![j + 1] = [h[i + 1] EXCEPT !.index = j]]

\* heap.up
RECURSIVE HeapUp(_, _)
HeapUp(h, j) ==
    LET i == (j - 1) \div 2
    IN IF j <= 0 \/ i = j \/ ~Less(h, j, i) THEN h
       ELSE HeapUp(Swap(h, i, j), i)

\* heap.down: the heap, and the slot the element that started at i0 ends in.
RECURSIVE HeapDown(_, _, _)
HeapDown(h, i, n) ==
    LET j1 == 2 * i + 1
        j2 == j1 + 1
        j == IF j2 < n /\ Less(h, j2, j1) THEN j2 ELSE j1
    IN IF j1 >= n THEN [h |-> h, at |-> i]
       ELSE IF ~Less(h, j, i) THEN [h |-> h, at |-> i]
       ELSE HeapDown(Swap(h, i, j), j, n)

\* heap.Fix: if !down(h, i, n) { up(h, i) }
HeapFix(h, i) ==
    LET d == HeapDown(h, i, Len(h))
    IN IF d.at > i THEN d.h ELSE HeapUp(h, i)

\* heap.Push: entryHeap.Push sets the index and appends, then up(n - 1).
HeapPush(h, e) == HeapUp(Append(h, [e EXCEPT !.index = Len(h)]), Len(h))

\* entryHeap.Pop: the last slot leaves the slice.
HeapDropLast(h) == SubSeq(h, 1, Len(h) - 1)

\* heap.Pop on a heap that is not empty: Swap(0, n), down(0, n), Pop.
HeapPop(h) ==
    LET n == Len(h) - 1
        d == HeapDown(Swap(h, 0, n), 0, n).h
    IN [h |-> HeapDropLast(d), e |-> d[n + 1]]

\* heap.Remove(h, i)
HeapRemove(h, i) ==
    LET n == Len(h) - 1
        s == Swap(h, i, n)
        d == HeapDown(s, i, n)
        r == IF n = i THEN h
             ELSE IF d.at > i THEN d.h ELSE HeapUp(s, i)
    IN HeapDropLast(r)

\* ----------------------------------------------- lfu.LFUCache (frequency)

\* lfu.New.  panicked: a heap.Pop on the empty heap has indexed out of range.
LfuNew(maxBytes) ==
    [maxBytes |-> maxBytes, nBytes |-> 0, heap |-> <<>>, cache |-> {}, panicked |-> FALSE]

\* The entry the map holds for key (the heap holds the same pointer).
LfuEntry(c, key) == c.heap[CHOOSE i \in 1..Len(c.heap) : c.heap[i].key = key]

\* The heap with the fields of key's entry changed to those of e.
LfuStore(h, e) == [i \in 1..Len(h) |-> IF h[i].key = e.key THEN e ELSE h[i]]

\* LFUCache.removeElement
LfuRemoveElement(c, e) ==
    [c EXCEPT !.heap = HeapRemove(c.heap, e.index),
              !.cache = c.cache \ {e.key},
              !.nBytes = c.nBytes - EntryBytes(e)]

\* LFUCache.RemoveOldest
LfuRemoveOldest(c) ==
    IF c.heap = <<>> THEN [c EXCEPT !.panicked = TRUE]
    ELSE LET p == HeapPop(c.heap)
         IN [c EXCEPT !.heap = p.h,
                      !.cache = c.cache \ {p.e.key},
                      !.nBytes = c.nBytes - EntryBytes(p.e)]

\* LFUCache.Get
LfuGet(c, key, t) ==
    IF key \in c.cache
    THEN LET ele == LfuEntry(c, key)
         IN IF Before(ele.expire, t)
            THEN [c |-> LfuRemoveElement(c, ele), ok |-> FALSE, value |-> ""]
            ELSE [c |-> [c EXCEPT !.heap =
                            HeapFix(LfuStore(c.heap, [ele EXCEPT !.freq = ele.freq + 1]),
                                    ele.index)],
                  ok |-> TRUE, value |-> ele.value]
    ELSE [c |-> c, ok |-> FALSE, value |-> ""]

\* An Add that leaves the value of a key it finds stored.
LfuInsertKeepValue(c, key, value, expireTime) ==
    IF key \in c.cache
    THEN LET ele == LfuEntry(c, key)
             upd == [ele EXCEPT !.freq = ele.freq + 1, !.expire = expireTime]
         IN [c EXCEPT !.heap = HeapFix(LfuStore(c.heap, upd), ele.index)]
    ELSE [c EXCEPT !.heap = HeapPush(c.heap, [key |-> key, value |-> value, freq |-> 1,
                                              index |-> 0, expire |-> expireTime]),
                   !.cache = c.cache \cup {key},
                   !.nBytes = c.nBytes + Len(key) + Len(value)]

\* LFUCache.Add up to its eviction loop.
LfuInsert(c, key, value, expireTime) ==
    IF key \in c.cache
    THEN LET ele == LfuEntry(c, key)
             upd == [ele EXCEPT !.freq = ele.freq + 1, !.value = value,
                                !.expire = expireTime]
         IN [c EXCEPT !.heap = HeapFix(LfuStore(c.heap, upd), ele.index)]
    ELSE [c EXCEPT !.heap = HeapPush(c.heap, [key |-> key, value |-> value, freq |-> 1,
                                              index |-> 0, expire |-> expireTime]),
                   !.cache = c.cache \cup {key},
                   !.nBytes = c.nBytes + Len(key) + Len(value)]

\* A loop condition that takes maxBytes 0 for a budget.
LfuOverAny(c) == c.maxBytes < c.nBytes

\* The condition of Add's loop: c.maxBytes != 0 && c.maxBytes < c.nBytes
LfuOver(c) == c.maxBytes # 0 /\ c.maxBytes < c.nBytes

\* The loop at the end of Add: RemoveOldest() while over the budget.
RECURSIVE LfuEvict(_)
LfuEvict(c) ==
    IF LfuOver(c) /\ ~c.panicked
    THEN LfuEvict(LfuRemoveOldest(c))
    ELSE c

\* LFUCache.Add
LfuAdd(c, key, value, expireTime) == LfuEvict(LfuInsert(c, key, value, expireTime))

\* ------------------------------------------- operations and OnEvicted

\* What a call of an operation of the container under test is remembered
\* by: its name, its key, the value it was given (Add) or returned (Get), the
\* expiry Add computed, and for Get whether it reported a hit and whether
\* the entry it found had expired.
Op(op, key, value, exp, ok, expired) ==
    [op |-> op, key |-> key, value |-> value, exp |-> exp, ok |-> ok, expired |-> expired]

NoOp == Op("none", "", "", 0, FALSE, FALSE)

\* New(maxBytes, onEvicted, defaultTTL): the callback is nil or a function.
OpInit(cb) ==
    /\ onEvicted = cb
    /\ lastOp = NoOp
    /\ fired = <<>>
    /\ script = <<>>

\* if c.OnEvicted != nil { c.OnEvicted(key, value) }: the calls made.
Callbacks(calls_) == IF onEvicted THEN calls_ ELSE <<>>

\* A RemoveElement that calls OnEvicted before it removes anything.
LruFireEarly(c, i, cause) ==
    [key |-> c.ll[i].key, value |-> c.ll[i].value, freq |-> 0, minFreq |-> 0,
     cause |-> cause, nBefore |-> c.nBytes, nAt |-> c.nBytes,
     inMap |-> c.ll[i].key \in c.cache, inOrder |-> c.ll[i].key \in KeysOf(c.ll)]

\* c.OnEvicted(kv.key, kv.value) at the end of LRUCache.RemoveElement: the
\* arguments, and what the callback can see of the container (nBefore is
\* nBytes when RemoveElement was entered).
LruFire(c, i, cause) ==
    LET post == LruRemoveElement(c, i)
    IN [key |-> c.ll[i].key, value |-> c.ll[i].value, freq |-> 0, minFreq |-> 0,
        cause |-> cause, nBefore |-> c.nBytes, nAt |-> post.nBytes,
        inMap |-> c.ll[i].key \in post.cache, inOrder |-> c.ll[i].key \in KeysOf(post.ll)]

\* The calls of OnEvicted LRUCache.Get makes.
LruGetFired(c, key, t) ==
    IF key \in c.cache /\ Before(c.ll[LruIndex(c, key)].expire, t)
    THEN <<LruFire(c, LruIndex(c, key), "expired")>>
    ELSE <<>>

\* The calls of OnEvicted LRUCache.RemoveOldest makes.
LruRemoveOldestFired(c, t) ==
    LET expired == {i \in 1..Len(c.ll) : Before(c.ll[i].expire, t)}
    IN IF expired = {} THEN <<>>
       ELSE <<LruFire(c, CHOOSE i \in expired : \A j \in expired : j <= i, "size")>>

\* The least freq in the heap.
MinFreq(h) == CHOOSE f \in {h[i].freq : i \in 1..Len(h)} : \A i \in 1..Len(h) : f <= h[i].freq

\* c.OnEvicted(e.key, e.value) at the end of LFUCache.RemoveOldest and of
\* LFUCache.removeElement, post being the container at that point.
LfuFire(c, e, post, cause) ==
    [key |-> e.key, value |-> e.value, freq |-> e.freq, minFreq |-> MinFreq(c.heap),
     cause |-> cause, nBefore |-> c.nBytes, nAt |-> post.nBytes,
     inMap |-> e.key \in post.cache, inOrder |-> e.key \in KeysOf(post.heap)]

\* The calls of OnEvicted LFUCache.Get makes.
LfuGetFired(c, key, t) ==
    IF key \in c.cache /\ Before(LfuEntry(c, key).expire, t)
    THEN <<LfuFire(c, LfuEntry(c, key), LfuRemoveElement(c, LfuEntry(c, key)), "expired")>>
    ELSE <<>>

\* The calls of OnEvicted LFUCache.RemoveOldest makes.
LfuRemoveOldestFired(c) ==
    IF c.heap = <<>> THEN <<>>
    ELSE <<LfuFire(c, HeapPop(c.heap).e, LfuRemoveOldest(c), "size")>>

\* The calls of OnEvicted the loop at the end of LFUCache.Add makes, in order.
RECURSIVE LfuEvictFired(_)
LfuEvictFired(c) ==
    IF LfuOver(c) /\ ~c.panicked
    THEN LfuRemoveOldestFired(c) \o LfuEvictFired(LfuRemoveOldest(c))
    ELSE <<>>

\* --------------------------------------------------- singleflight.Group

\* The positions of a leader while its fn runs.
FnPcs == {"fn", "populate", "evict"}

Procs == {"p1", "p2", "p3"}
SKeys == {"t", "j"}

\* A nil interface value and a nil error.
NoVal == "nil"
NoErr == "nil"

\* What a call holds before fn has returned: the zero values of val and err.
Unset == <<NoVal, NoErr>>

\* What the fn of the single-flight specification may return.
FnResults == {<<"v", NoErr>>, <<NoVal, "err">>}

\* c := new(call); c.wg.Add(1).  The other fields are history: out is what fn
\* returned, leader the caller that allocated the call, key its key, and
\* retired tells that the leader's Do has returned.
NewCall(p, k) ==
    [wg |-> 1, val |-> NoVal, err |-> NoErr,
     out |-> Unset, leader |-> p, key |-> k, retired |-> FALSE]

\* A lookup that never finds the call registered for the key.
RegisteredNever(m, k) == FALSE

\* c, ok := g.m[key]
Registered(m, k) == k \in DOMAIN m

\* A Do that does not register the call it allocated.
TablePutNothing(m, k, c) == m

\* g.m[key] = c
TablePut(m, k, c) == [x \in DOMAIN m \cup {k} |-> IF x = k THEN c ELSE m[x]]

\* A Do that forgets to delete its key.
TableKeep(m, k) == m

\* delete(g.m, key)
TableDelete(m, k) == [x \in DOMAIN m \ {k} |-> m[x]]

\* A Wait that does not block.
WgWaitNoBlock(c) == TRUE

\* c.wg.Wait() returns once the counter is zero.
WgWait(c) == calls[c].wg = 0

SfInit ==
    /\ pc = [p \in Procs |-> "idle"]
    /\ pkey = [p \in Procs |-> "t"]
    /\ sfMu = "free"
    /\ sfM = [x \in {} |-> 0]
    /\ calls = <<>>
    /\ myCall = [p \in Procs |-> 0]
    /\ ret = [p \in Procs |-> Unset]
    /\ role = [p \in Procs |-> "none"]
    /\ started = 0

\* g.mu.Lock() at the start of Do.
DoLock(p) ==
    /\ pc[p] = "call"
    /\ sfMu = "free"
    /\ sfMu' = p
    /\ pc' = [pc EXCEPT ![p] = "locked"]
    /\ UNCHANGED <<pkey, sfM, calls, myCall, ret, role, started, cvars, gvars, pvars>>

\* A Do that joins whatever call is in the table, of its key or of another.
DoLookupAnyKey(p) ==
    /\ pc[p] = "locked"
    /\ sfMu' = "free"
    /\ IF DOMAIN sfM # {}
       THEN /\ myCall' = [myCall EXCEPT ![p] = sfM[CHOOSE k \in DOMAIN sfM : TRUE]]
            /\ pc' = [pc EXCEPT ![p] = "wait"]
            /\ UNCHANGED <<sfM, calls, cvars, gvars, pvars>>
       ELSE /\ calls' = Append(calls, NewCall(p, pkey[p]))
            /\ sfM' = TablePut(sfM, pkey[p], Len(calls) + 1)
            /\ myCall' = [myCall EXCEPT ![p] = Len(calls) + 1]
            /\ pc' = [pc EXCEPT ![p] = "fn"]
    /\ UNCHANGED <<pkey, ret, role, started, cvars, gvars, pvars>>

\* A Do whose leader keeps the mutex while fn runs.
DoLookupHolding(p) ==
    /\ pc[p] = "locked"
    /\ IF Registered(sfM, pkey[p])
       THEN /\ myCall' = [myCall EXCEPT ![p] = sfM[pkey[p]]]
            /\ pc' = [pc EXCEPT ![p] = "wait"]
            /\ sfMu' = "free"
            /\ UNCHANGED <<sfM, calls, cvars, gvars, pvars>>
       ELSE /\ calls' = Append(calls, NewCall(p, pkey[p]))
            /\ sfM' = TablePut(sfM, pkey[p], Len(calls) + 1)
            /\ myCall' = [myCall EXCEPT ![p] = Len(calls) + 1]
            /\ pc' = [pc EXCEPT ![p] = "fn"]
            /\ UNCHANGED sfMu
    /\ UNCHANGED <<pkey, ret, role, started, cvars, gvars, pvars>>

\* Under the mutex: a call registered for key is joined (the caller goes to
\* wait on it); otherwise a call is allocated and registered and the caller
\* goes on to run fn.  Either way the mutex is released.
DoLookup(p) ==
    /\ pc[p] = "locked"
    /\ sfMu' = "free"
    /\ IF Registered(sfM, pkey[p])
       THEN /\ myCall' = [myCall EXCEPT ![p] = sfM[pkey[p]]]
            /\ pc' = [pc EXCEPT ![p] = "wait"]
            /\ UNCHANGED <<sfM, calls, cvars, gvars, pvars>>
       ELSE /\ calls' = Append(calls, NewCall(p, pkey[p]))
            /\ sfM' = TablePut(sfM, pkey[p], Len(calls) + 1)
            /\ myCall' = [myCall EXCEPT ![p] = Len(calls) + 1]
            /\ pc' = [pc EXCEPT ![p] = "fn"]
    /\ UNCHANGED <<pkey, ret, role, started, cvars, gvars, pvars>>

\* c.val, c.err = fn(): fn has returned res.
FnDone(p, res) ==
    /\ calls' = [calls EXCEPT ![myCall[p]].val = res[1], ![myCall[p]].err = res[2],
                              ![myCall[p]].out = res]
    /\ pc' = [pc EXCEPT ![p] = "assigned"]

\* A leader that goes on without c.wg.Done().
WgDoneForgotten(p) ==
    /\ pc[p] = "assigned"
    /\ pc' = [pc EXCEPT ![p] = "relock"]
    /\ UNCHANGED <<pkey, sfMu, sfM, calls, myCall, ret, role, started, cvars, gvars, pvars>>

\* c.wg.Done()
WgDone(p) ==
    /\ pc[p] = "assigned"
    /\ calls' = [calls EXCEPT ![myCall[p]].wg = 0]
    /\ pc' = [pc EXCEPT ![p] = "relock"]
    /\ UNCHANGED <<pkey, sfMu, sfM, myCall, ret, role, started, cvars, gvars, pvars>>

\* g.mu.Lock() before the delete.
DoRelock(p) ==
    /\ pc[p] = "relock"
    /\ sfMu = "free"
    /\ sfMu' = p
    /\ pc' = [pc EXCEPT ![p] = "deleting"]
    /\ UNCHANGED <<pkey, sfM, calls, myCall, ret, role, started, cvars, gvars, pvars>>

\* delete(g.m, key); g.mu.Unlock(); return c.val, c.err
DoDelete(p) ==
    /\ pc[p] = "deleting"
    /\ sfM' = TableDelete(sfM, pkey[p])
    /\ sfMu' = "free"
    /\ ret' = [ret EXCEPT ![p] = <<calls[myCall[p]].val, calls[myCall[p]].err>>]
    /\ role' = [role EXCEPT ![p] = "leader"]
    /\ calls' = [calls EXCEPT ![myCall[p]].retired = TRUE]
    /\ pc' = [pc EXCEPT ![p] = "idle"]
    /\ UNCHANGED <<pkey, myCall, started, cvars, gvars, pvars>>

\* c.wg.Wait(); return c.val, c.err
FollowerReturn(p) ==
    /\ pc[p] = "wait"
    /\ WgWait(myCall[p])
    /\ ret' = [ret EXCEPT ![p] = <<calls[myCall[p]].val, calls[myCall[p]].err>>]
    /\ role' = [role EXCEPT ![p] = "follower"]
    /\ pc' = [pc EXCEPT ![p] = "idle"]
    /\ UNCHANGED <<pkey, sfMu, sfM, calls, myCall, started, cvars, gvars, pvars>>

\* --------------------------------------------------- the cache wrappers

\* The keys of the group specification and the loader's data source: the
\* loader knows "t" and "j" and fails for "u".
GKeys == {"t", "j", "u"}
DB == [k \in {"t", "j"} |-> IF k = "t" THEN "630" ELSE "589"]
LoaderErr == "not exist"

\* The group's default TTL, time.Second * 60, in ticks of 30 s.
GroupTTL == 2

\* &LRUcache{cacheBytes: ..., ttl: ...}: the container is nil until the first add.
WNew(cacheBytes) == [cacheBytes |-> cacheBytes, nil |-> TRUE, c |-> LruNew(cacheBytes)]

\* The keys a wrapper's container stores.
WStored(w) == IF w.nil THEN {} ELSE w.c.cache

\* LRUcache.get / LFUcache.get
WGet(w, k, t) ==
    IF w.nil THEN [w |-> w, ok |-> FALSE, value |-> ""]
    ELSE LET r == IF variant = "lru" THEN LruGet(w.c, k, t) ELSE LfuGet(w.c, k, t)
         IN [w |-> [w EXCEPT !.c = r.c], ok |-> r.ok, value |-> r.value]

\* if c.lru == nil { c.lru = lru.New(c.cacheBytes, nil, c.ttl) }
WInit(w) ==
    IF ~w.nil THEN w
    ELSE [w EXCEPT !.nil = FALSE,
                   !.c = IF variant = "lru" THEN LruNew(w.cacheBytes)
                         ELSE LfuNew(w.cacheBytes)]

\* The insertion of LRUCache.Add / LFUCache.Add into the container that add
\* has made sure exists.
WInsert(w, k, v, t, jitter) ==
    LET i == WInit(w)
    IN [i EXCEPT !.c = IF variant = "lru"
                       THEN LruInsert(i.c, k, v, t + GroupTTL + jitter)
                       ELSE LfuInsert(i.c, k, v, t + GroupTTL)]

\* The eviction loop of LFUCache.Add, which always ends; the loop of
\* LRUCache.Add is taken one iteration at a time by the caller.
WEvict(w) == IF variant = "lru" THEN w ELSE [w EXCEPT !.c = LfuEvict(w.c)]

\* An add that drops the entry.
WAddNothing(w, k, v, t, jitter) == w

\* LRUcache.add / LFUcache.add up to the recency variant's eviction loop.
WAdd(w, k, v, t, jitter) == WEvict(WInsert(w, k, v, t, jitter))

\* The removal counts after removals took the main cache from w to x.
Removals(w, x) ==
    [k \in GKeys |-> IF k \in WStored(w) /\ k \notin WStored(x)
                     THEN removed[k] + 1 ELSE removed[k]]

\* The getter of the tests: the value of a key of the data source, an error
\* for any other key.
Getter(k) == IF k \in DOMAIN DB THEN <<DB[k], NoErr>> ELSE <<"", LoaderErr>>

\* A getLocally that does not look at the getter's error.
FailedNever(r) == FALSE

\* if err != nil { return ByteView{}, err }
Failed(r) == r[2] # NoErr


\* --------------------------------------------------- the peers' state

\* The addresses of the peers of a cluster.
Addrs == {"n1", "n2"}

\* No client handle: s.clients[peerAddr] of an address the map does not hold.
Nil == "nil"

\* What a client's Get is remembered by when none has been called.
NoGet == [node |-> "", key |-> "", value |-> "", err |-> "", done |-> FALSE]

\* No ring is under test.
NoRing ==
    /\ ring = <<>>
    /\ ringAdded = <<>>
    /\ looked = <<>>

\* The tasks that set a process up.
STasks == {"t1", "t2"}

\* The names groups are made and asked under.
SNames == {"scores", "other"}

\* No call has been made.
NoSetup == [op |-> "", name |-> "", g |-> 0, arg |-> "", getter |-> "", out |-> ""]

\* No group has been made.
NoRegistry ==
    /\ mu = "free"
    /\ groups = [name \in SNames |-> 0]
    /\ objs = <<>>
    /\ setup = NoSetup
    /\ regPc = [t \in STasks |-> <<>>]

\* No RPC has come in; resp := &pb.Response{} has no Value.
NoRpc == [node |-> "", group |-> "", key |-> "", pc |-> "idle", value |-> <<>>, err |-> NoErr]

\* No wrapper is under test.
NoWrapper ==
    /\ wrap = <<>>
    /\ wmu = <<>>
    /\ wtask = <<>>
    /\ wcalls = 0

\* No remote fetch is under test.
NoStats ==
    /\ kmap = <<>>
    /\ ktask = <<>>
    /\ kfatal = FALSE

\* No server is under test.
NoServer ==
    /\ server = <<>>
    /\ chans = <<>>
    /\ ltask = <<>>
    /\ rtask = <<>>
    /\ exited = ""

\* Nothing is under test on its own.
NoneAlone == NoRing /\ NoRegistry /\ rpc = NoRpc /\ NoWrapper /\ NoStats /\ NoServer

\* A process with no server and no peers: the state of the peers' variables in
\* the specifications of one container or one group.
NoCluster ==
    /\ srv = <<>>
    /\ grp = <<>>
    /\ stack = <<>>
    /\ trace = <<>>
    /\ last = NoGet
    /\ gets = 0
    /\ fetched = <<>>

\* ------------------------------------------------------- geecache.Group

GProcs == {"p1", "p2"}

\* The number of Get calls a behaviour of the group makes.
MaxGets == 2

\* The positions of a Get that has missed both caches and not yet returned.
MissedPcs == {"call", "locked", "wait", "fn", "populate", "evict",
              "assigned", "relock", "deleting"}

\* NewGroup(name, cacheBytes, CacheType, getter): the hot cache gets an eighth
\* of the budget.
GroupVarsInit(cacheBytes) ==
    /\ mainCache = WNew(cacheBytes)
    /\ hotCache = WNew(cacheBytes \div 8)
    /\ mainLock = "free"
    /\ loadCount = [k \in GKeys |-> 0]
    /\ loaded = [p \in Procs |-> FALSE]
    /\ coMiss = {}
    /\ removed = [k \in GKeys |-> 0]

GroupInit ==
    /\ now = 0
    /\ variant \in {"lru", "lfu"}
    /\ lru = LruNew(0)
    /\ lfu = LfuNew(0)
    /\ lruPc = "idle"
    /\ lruStalled = FALSE
    /\ OpInit(FALSE)
    /\ SfInit
    /\ \E b \in Budgets : GroupVarsInit(b)
    /\ NoneAlone
    /\ NoCluster

\* Group.Get(k) is called with a key that is not empty.
GetCall(p, k) ==
    /\ pc[p] = "idle"
    /\ started < MaxGets
    /\ started' = started + 1
    /\ pkey' = [pkey EXCEPT ![p] = k]
    /\ role' = [role EXCEPT ![p] = "none"]
    /\ ret' = [ret EXCEPT ![p] = Unset]
    /\ myCall' = [myCall EXCEPT ![p] = 0]
    /\ loaded' = [loaded EXCEPT ![p] = FALSE]
    /\ coMiss' = {pr \in coMiss : p \notin pr}
    /\ pc' = [pc EXCEPT ![p] = "hot"]
    /\ UNCHANGED <<sfMu, sfM, calls, mainCache, hotCache, mainLock, loadCount, removed, cvars, pvars>>

\* if v, ok := g.hotCache.get(key); ok { return v, nil }
GetHot(p) ==
    /\ pc[p] = "hot"
    /\ LET r == WGet(hotCache, pkey[p], now)
       IN /\ hotCache' = r.w
          /\ IF r.ok
             THEN /\ ret' = [ret EXCEPT ![p] = <<r.value, NoErr>>]
                  /\ role' = [role EXCEPT ![p] = "hit"]
                  /\ pc' = [pc EXCEPT ![p] = "idle"]
             ELSE /\ pc' = [pc EXCEPT ![p] = "main"]
                  /\ UNCHANGED <<ret, role>>
    /\ UNCHANGED <<pkey, sfMu, sfM, calls, myCall, started,
                   mainCache, mainLock, loadCount, loaded, coMiss, removed, cvars, pvars>>

\* if v, ok := g.mainCache.get(key); ok { return v, nil }; return g.load(key)
GetMain(p) ==
    /\ pc[p] = "main"
    /\ mainLock = "free"
    /\ LET r == WGet(mainCache, pkey[p], now)
       IN /\ mainCache' = r.w
          /\ removed' = Removals(mainCache, r.w)
          /\ IF r.ok
             THEN /\ ret' = [ret EXCEPT ![p] = <<r.value, NoErr>>]
                  /\ role' = [role EXCEPT ![p] = "hit"]
                  /\ pc' = [pc EXCEPT ![p] = "idle"]
                  /\ UNCHANGED coMiss
             ELSE /\ pc' = [pc EXCEPT ![p] = "call"]
                  /\ coMiss' = coMiss \cup
                        {{p, q} : q \in {x \in GProcs \ {p} :
                                           pkey[x] = pkey[p] /\ pc[x] \in MissedPcs}}
                  /\ UNCHANGED <<ret, role>>
    /\ UNCHANGED <<pkey, sfMu, sfM, calls, myCall, started,
                   hotCache, mainLock, loadCount, loaded, cvars, pvars>>

\* The closure of load with no peer picker registered, in getLocally:
\* bytes, err := g.getter.Get(key); an error ends the closure.
GetLocally(p) ==
    /\ pc[p] = "fn"
    /\ loadCount' = [loadCount EXCEPT ![pkey[p]] = @ + 1]
    /\ loaded' = [loaded EXCEPT ![p] = TRUE]
    /\ IF Failed(Getter(pkey[p]))
       THEN FnDone(p, <<"", Getter(pkey[p])[2]>>)
       ELSE /\ pc' = [pc EXCEPT ![p] = "populate"]
            /\ UNCHANGED calls
    /\ UNCHANGED <<pkey, sfMu, sfM, myCall, ret, role, started,
                   mainCache, hotCache, mainLock, coMiss, removed, cvars, pvars>>

\* g.populateCache(key, value) -> g.mainCache.add(key, value), value being
\* ByteView{b: cloneBytes(bytes)}; the closure returns (value, nil) once add
\* has returned.  The recency variant over its budget stays in add's loop.
Populate(p, jitter) ==
    /\ pc[p] = "populate"
    /\ mainLock = "free"
    /\ mainCache' = WAdd(mainCache, pkey[p], Getter(pkey[p])[1], now, jitter)
    /\ LET ins == WInsert(mainCache, pkey[p], Getter(pkey[p])[1], now, jitter)
       IN removed' = Removals(ins, WEvict(ins))
    /\ IF variant = "lru" /\ LruOver(mainCache'.c)
       THEN /\ mainLock' = p
            /\ pc' = [pc EXCEPT ![p] = "evict"]
            /\ UNCHANGED calls
       ELSE /\ FnDone(p, <<Getter(pkey[p])[1], NoErr>>)
            /\ UNCHANGED mainLock
    /\ UNCHANGED <<pkey, sfMu, sfM, myCall, ret, role, started,
                   hotCache, loadCount, loaded, coMiss, cvars, pvars>>

\* One iteration of the loop of LRUCache.Add inside mainCache.add.
EvictMain(p) ==
    /\ pc[p] = "evict"
    /\ mainCache' = [mainCache EXCEPT !.c = LruRemoveOldest(mainCache.c, now)]
    /\ removed' = Removals(mainCache, mainCache')
    /\ IF LruOver(mainCache'.c)
       THEN UNCHANGED <<pc, calls, mainLock>>
       ELSE /\ FnDone(p, <<Getter(pkey[p])[1], NoErr>>)
            /\ mainLock' = "free"
    /\ UNCHANGED <<pkey, sfMu, sfM, myCall, ret, role, started,
                   hotCache, loadCount, loaded, coMiss, cvars, pvars>>

\* The clock advances.
GroupTick ==
    /\ now < MaxTime
    /\ now' = now + 1
    /\ UNCHANGED <<variant, lru, lruPc, lruStalled, lfu, onEvicted, lastOp, fired, script, svars, gvars, pvars>>

GroupNext ==
    \/ \E p \in GProcs, k \in GKeys : GetCall(p, k)
    \/ \E p \in GProcs : GetHot(p)
    \/ \E p \in GProcs : GetMain(p)
    \/ \E p \in GProcs : DoLock(p)
    \/ \E p \in GProcs : DoLookup(p)
    \/ \E p \in GProcs : GetLocally(p)
    \/ \E p \in GProcs, j \in Jitters : Populate(p, j)
    \/ \E p \in GProcs : EvictMain(p)
    \/ \E p \in GProcs : WgDone(p)
    \/ \E p \in GProcs : DoRelock(p)
    \/ \E p \in GProcs : DoDelete(p)
    \/ \E p \in GProcs : FollowerReturn(p)
    \/ GroupTick

SpecGroup == GroupInit /\ [][GroupNext]_vars

\* The callers of the tests: one Get after the other, each called when the
\* one before has returned.
GetCallSeq(p, k) ==
    /\ \A q \in GProcs : pc[q] = "idle"
    /\ GetCall(p, k)

SeqNext ==
    \/ \E p \in GProcs, k \in GKeys : GetCallSeq(p, k)
    \/ \E p \in GProcs : GetHot(p)
    \/ \E p \in GProcs : GetMain(p)
    \/ \E p \in GProcs : DoLock(p)
    \/ \E p \in GProcs : DoLookup(p)
    \/ \E p \in GProcs : GetLocally(p)
    \/ \E p \in GProcs, j \in Jitters : Populate(p, j)
    \/ \E p \in GProcs : EvictMain(p)
    \/ \E p \in GProcs : WgDone(p)
    \/ \E p \in GProcs : DoRelock(p)
    \/ \E p \in GProcs : DoDelete(p)
    \/ GroupTick

SpecGroupSeq == GroupInit /\ [][SeqNext]_vars

\* ------------------------------------------------------------ SpecSF

SfSpecInit ==
    /\ now = 0
    /\ variant = "lru"
    /\ lru = LruNew(0)
    /\ lfu = LfuNew(0)
    /\ lruPc = "idle"
    /\ lruStalled = FALSE
    /\ OpInit(FALSE)
    /\ SfInit
    /\ GroupVarsInit(0)
    /\ NoneAlone
    /\ NoCluster

\* A caller calls Do(k, fn).
SfCall(p, k) ==
    /\ pc[p] = "idle"
    /\ started < MaxCalls
    /\ started' = started + 1
    /\ pkey' = [pkey EXCEPT ![p] = k]
    /\ role' = [role EXCEPT ![p] = "none"]
    /\ ret' = [ret EXCEPT ![p] = Unset]
    /\ myCall' = [myCall EXCEPT ![p] = 0]
    /\ pc' = [pc EXCEPT ![p] = "call"]
    /\ UNCHANGED <<sfMu, sfM, calls, cvars, gvars, pvars>>

\* fn returns one of its results.
SfFn(p, res) ==
    /\ pc[p] = "fn"
    /\ FnDone(p, res)
    /\ UNCHANGED <<pkey, sfMu, sfM, myCall, ret, role, started, cvars, gvars, pvars>>

SfNext ==
    \/ \E p \in Procs, k \in SKeys : SfCall(p, k)
    \/ \E p \in Procs : DoLock(p)
    \/ \E p \in Procs : DoLookup(p)
    \/ \E p \in Procs, res \in FnResults : SfFn(p, res)
    \/ \E p \in Procs : WgDone(p)
    \/ \E p \in Procs : DoRelock(p)
    \/ \E p \in Procs : DoDelete(p)
    \/ \E p \in Procs : FollowerReturn(p)

SpecSF == SfSpecInit /\ [][SfNext]_vars

\* The scheduling of the callers' goroutines: a goroutine that can take its
\* next step takes it; fn returns; a goroutine that asks for g.mu gets it
\* (sync.Mutex hands the mutex to a waiter that has waited long).
\* A caller is at one place of Do at a time, so one condition stands for the
\* steps that take no mutex and one for the two that take it.
SfRuns(p) ==
    \/ DoLookup(p)
    \/ \E res \in FnResults : SfFn(p, res)
    \/ WgDone(p)
    \/ DoDelete(p)
    \/ FollowerReturn(p)

SfLocks(p) == DoLock(p) \/ DoRelock(p)

SfFair == \A p \in Procs : WF_vars(SfRuns(p)) /\ SF_vars(SfLocks(p))

\* The calls of Do in the behaviours whose ends are examined.
MaxLiveCalls == 2

SfLiveCall(p, k) == started < MaxLiveCalls /\ SfCall(p, k)

SfLiveNext ==
    \/ \E p \in Procs, k \in SKeys : SfLiveCall(p, k)
    \/ \E p \in Procs : SfLocks(p)
    \/ \E p \in Procs : SfRuns(p)

SpecSFLive == SfSpecInit /\ [][SfLiveNext]_vars /\ SfFair

\* ------------------------------------------------------------ SpecCache

CacheInit ==
    /\ now = 0
    /\ variant \in {"lru", "lfu"}
    /\ \E b \in Budgets : lru = LruNew(b) /\ lfu = LfuNew(b)
    /\ lruPc = "idle"
    /\ lruStalled = FALSE
    /\ OpInit(FALSE)
    /\ SfInit
    /\ GroupVarsInit(0)
    /\ NoneAlone
    /\ NoCluster

\* The steps of the operations on the container under test, without what a
\* caller observes of them.
\* Add(key, value, ttl): the insertion, then the loop is entered when the
\* cache is over its budget.
LruAddBody(key, value, ttl, jitter) ==
    /\ variant = "lru"
    /\ lruPc = "idle"
    /\ now + ttl + jitter < MaxTime
    /\ lru' = LruInsert(lru, key, value, now + ttl + jitter)
    /\ lruPc' = IF LruOver(lru') THEN "evict" ELSE "idle"
    /\ UNCHANGED <<now, variant, lruStalled, lfu, onEvicted, svars, gvars, pvars>>

\* One iteration of Add's loop: RemoveOldest(), then the condition again.
LruEvictBody ==
    /\ variant = "lru"
    /\ lruPc = "evict"
    /\ lru' = LruRemoveOldest(lru, now)
    /\ lruPc' = IF LruOver(lru') THEN "evict" ELSE "idle"
    /\ lruStalled' = (lru' = lru)
    /\ UNCHANGED <<now, variant, lfu, onEvicted, svars, gvars, pvars>>

LruGetBody(key) ==
    /\ variant = "lru"
    /\ lruPc = "idle"
    /\ lru' = LruGet(lru, key, now).c
    /\ UNCHANGED <<now, variant, lruPc, lruStalled, lfu, onEvicted, svars, gvars, pvars>>

LruRemoveOldestBody ==
    /\ variant = "lru"
    /\ lruPc = "idle"
    /\ lru' = LruRemoveOldest(lru, now)
    /\ UNCHANGED <<now, variant, lruPc, lruStalled, lfu, onEvicted, svars, gvars, pvars>>

LfuSum(c) == SumBytes(c.heap)

LfuAddBody(key, value, ttl) ==
    /\ variant = "lfu"
    /\ ~lfu.panicked
    /\ now + ttl < MaxTime
    /\ key \in lfu.cache => LfuEntry(lfu, key).freq < MaxFreq
    /\ lfu' = LfuAdd(lfu, key, value, now + ttl)
    /\ lfu'.nBytes - LfuSum(lfu') \in (0 - MaxDrift)..MaxDrift
    /\ UNCHANGED <<now, variant, lru, lruPc, lruStalled, onEvicted, svars, gvars, pvars>>

LfuGetBody(key) ==
    /\ variant = "lfu"
    /\ ~lfu.panicked
    /\ key \in lfu.cache => LfuEntry(lfu, key).freq < MaxFreq
    /\ lfu' = LfuGet(lfu, key, now).c
    /\ UNCHANGED <<now, variant, lru, lruPc, lruStalled, onEvicted, svars, gvars, pvars>>

LfuRemoveOldestBody ==
    /\ variant = "lfu"
    /\ ~lfu.panicked
    /\ lfu' = LfuRemoveOldest(lfu)
    /\ UNCHANGED <<now, variant, lru, lruPc, lruStalled, onEvicted, svars, gvars, pvars>>

\* The operations as SpecCache takes them: nothing is recorded of the calls.
LruAddCall(key, value, ttl, jitter) ==
    LruAddBody(key, value, ttl, jitter) /\ UNCHANGED <<lastOp, fired, script>>

LruEvictStep == LruEvictBody /\ UNCHANGED <<lastOp, fired, script>>

LruGetCall(key) == LruGetBody(key) /\ UNCHANGED <<lastOp, fired, script>>

LruRemoveOldestCall == LruRemoveOldestBody /\ UNCHANGED <<lastOp, fired, script>>

LfuAddCall(key, value, ttl) == LfuAddBody(key, value, ttl) /\ UNCHANGED <<lastOp, fired, script>>

LfuGetCall(key) == LfuGetBody(key) /\ UNCHANGED <<lastOp, fired, script>>

LfuRemoveOldestCall == LfuRemoveOldestBody /\ UNCHANGED <<lastOp, fired, script>>

\* The clock advances, also while Add is in its loop.
Tick ==
    /\ now < MaxTime
    /\ now' = now + 1
    /\ UNCHANGED <<variant, lru, lruPc, lruStalled, lfu, onEvicted, lastOp, fired, script, svars, gvars, pvars>>

CacheNext ==
    \/ \E k \in CKeys, v \in CVals, ttl \in TTLs, j \in Jitters : LruAddCall(k, v, ttl, j)
    \/ LruEvictStep
    \/ \E k \in CKeys : LruGetCall(k)
    \/ LruRemoveOldestCall
    \/ \E k \in CKeys, v \in CVals, ttl \in TTLs : LfuAddCall(k, v, ttl)
    \/ \E k \in CKeys : LfuGetCall(k)
    \/ LfuRemoveOldestCall
    \/ Tick

SpecCache == CacheInit /\ [][CacheNext]_vars

\* ------------------------------------------------------------- SpecOps

\* The keys, values and TTLs of the calls whose results and callbacks are
\* recorded.
OKeys == {"a", "b", "cc"}
OVals == {"x", "yy"}
OTTLs == {1}

OpsInit ==
    /\ now = 0
    /\ variant \in {"lru", "lfu"}
    /\ lru = LruNew(MaxBudget) /\ lfu = LfuNew(MaxBudget)
    /\ lruPc = "idle"
    /\ lruStalled = FALSE
    /\ \E cb \in BOOLEAN : OpInit(cb)
    /\ SfInit
    /\ GroupVarsInit(0)
    /\ NoneAlone
    /\ NoCluster

\* The operations with what their caller sees: the call, its result, and
\* the calls of OnEvicted it made.
LruAddObs(key, value, ttl, jitter) ==
    /\ LruAddBody(key, value, ttl, jitter)
    /\ lastOp' = Op("add", key, value, now + ttl + jitter, FALSE, FALSE)
    /\ fired' = <<>>
    /\ UNCHANGED script

LruEvictObs ==
    /\ LruEvictBody
    /\ fired' = Callbacks(LruRemoveOldestFired(lru, now))
    /\ UNCHANGED <<lastOp, script>>

LruGetObs(key) ==
    /\ LruGetBody(key)
    /\ lastOp' = Op("get", key, LruGet(lru, key, now).value, 0, LruGet(lru, key, now).ok,
                    key \in lru.cache /\ lru.ll[LruIndex(lru, key)].expire < now)
    /\ fired' = Callbacks(LruGetFired(lru, key, now))
    /\ UNCHANGED script

LruRemoveOldestObs ==
    /\ LruRemoveOldestBody
    /\ lastOp' = Op("removeOldest", "", "", 0, FALSE, FALSE)
    /\ fired' = Callbacks(LruRemoveOldestFired(lru, now))
    /\ UNCHANGED script

LfuAddObs(key, value, ttl) ==
    /\ LfuAddBody(key, value, ttl)
    /\ lastOp' = Op("add", key, value, now + ttl, FALSE, FALSE)
    /\ fired' = Callbacks(LfuEvictFired(LfuInsert(lfu, key, value, now + ttl)))
    /\ UNCHANGED script

LfuGetObs(key) ==
    /\ LfuGetBody(key)
    /\ lastOp' = Op("get", key, LfuGet(lfu, key, now).value, 0, LfuGet(lfu, key, now).ok,
                    key \in lfu.cache /\ LfuEntry(lfu, key).expire < now)
    /\ fired' = Callbacks(LfuGetFired(lfu, key, now))
    /\ UNCHANGED script

LfuRemoveOldestObs ==
    /\ LfuRemoveOldestBody
    /\ lastOp' = Op("removeOldest", "", "", 0, FALSE, FALSE)
    /\ fired' = Callbacks(LfuRemoveOldestFired(lfu))
    /\ UNCHANGED script

OpsNext ==
    \/ \E k \in OKeys, v \in OVals, ttl \in OTTLs, j \in Jitters : LruAddObs(k, v, ttl, j)
    \/ LruEvictObs
    \/ \E k \in OKeys : LruGetObs(k)
    \/ LruRemoveOldestObs
    \/ \E k \in OKeys, v \in OVals, ttl \in OTTLs : LfuAddObs(k, v, ttl)
    \/ \E k \in OKeys : LfuGetObs(k)
    \/ LfuRemoveOldestObs
    \/ Tick

SpecOps == OpsInit /\ [][OpsNext]_vars

\* -------------------------------------------------------- SpecUnbounded

\* The keys of the calls on the containers made with maxBytes 0.
UKeys == {"a", "cc"}

\* The containers made with maxBytes 0 and a callback, with Add and Get
\* called on them.
UnboundedInit ==
    /\ now = 0
    /\ variant \in {"lru", "lfu"}
    /\ lru = LruNew(0) /\ lfu = LfuNew(0)
    /\ lruPc = "idle"
    /\ lruStalled = FALSE
    /\ OpInit(TRUE)
    /\ SfInit
    /\ GroupVarsInit(0)
    /\ NoneAlone
    /\ NoCluster

UnboundedNext ==
    \/ \E k \in UKeys, v \in OVals, ttl \in OTTLs, j \in Jitters : LruAddObs(k, v, ttl, j)
    \/ \E k \in UKeys : LruGetObs(k)
    \/ \E k \in UKeys, v \in OVals, ttl \in OTTLs : LfuAddObs(k, v, ttl)
    \/ \E k \in UKeys : LfuGetObs(k)
    \/ Tick

SpecUnbounded == UnboundedInit /\ [][UnboundedNext]_vars

\* ------------------------------------------------------------ SpecLfuTest

\* TestOnEvicted of the frequency variant: lfu.New(int64(10), callback, 60)
\* and the four pairs it adds; the callback appends to a slice, so fired
\* holds every call made so far.
TestBudget == 10
TestKeys == {"key1", "k2", "k3", "k4"}
TestValue(k) == IF k = "key1" THEN "123456" ELSE k

\* The number of operations a test calls.
MaxScript == 4

LfuTestInit ==
    /\ now = 0
    /\ variant = "lfu"
    /\ lru = LruNew(TestBudget) /\ lfu = LfuNew(TestBudget)
    /\ lruPc = "idle"
    /\ lruStalled = FALSE
    /\ onEvicted = TRUE /\ lastOp = NoOp /\ fired = <<>> /\ script = <<>>
    /\ SfInit
    /\ GroupVarsInit(0)
    /\ NoneAlone
    /\ NoCluster

LfuAddTest(key, ttl) ==
    /\ Len(script) < MaxScript
    /\ LfuAddBody(key, TestValue(key), ttl)
    /\ script' = Append(script, <<"add", key>>)
    /\ lastOp' = Op("add", key, TestValue(key), now + ttl, FALSE, FALSE)
    /\ fired' = fired \o Callbacks(LfuEvictFired(LfuInsert(lfu, key, TestValue(key), now + ttl)))

LfuGetTest(key) ==
    /\ Len(script) < MaxScript
    /\ LfuGetBody(key)
    /\ script' = Append(script, <<"get", key>>)
    /\ lastOp' = Op("get", key, LfuGet(lfu, key, now).value, 0, LfuGet(lfu, key, now).ok,
                    key \in lfu.cache /\ LfuEntry(lfu, key).expire < now)
    /\ fired' = fired \o Callbacks(LfuGetFired(lfu, key, now))

LfuTestNext ==
    \/ \E k \in TestKeys, ttl \in OTTLs : LfuAddTest(k, ttl)
    \/ \E k \in TestKeys : LfuGetTest(k)

SpecLfuTest == LfuTestInit /\ [][LfuTestNext]_vars

\* ------------------------------------------------- consistenthash.Map

\* The virtual nodes a peer gets on the ring (defaultReplicas is 50).
Replicas == 2

\* The number of a peer's address.
AddrNum(a) == IF a = "n1" THEN 1 ELSE 2

\* hash([]byte(strconv.Itoa(i) + peer)): the place of the i-th virtual node of
\* a peer; the places of two virtual nodes differ.
VHash(i, peer) == 5 * i + 3 * AddrNum(peer)

\* hash([]byte(key)): "t" falls to a virtual node of n2, "u" to one of n1.
KeyHash(key) == IF key = "t" THEN 5 ELSE IF key = "u" THEN 7 ELSE 12

\* strconv.Atoi on the decimal strings of the ring's test.
Atoi(str) ==
    CASE str = "2" -> 2 [] str = "4" -> 4 [] str = "6" -> 6 [] str = "8" -> 8
      [] str = "9" -> 9 [] str = "11" -> 11 [] str = "23" -> 23 [] str = "27" -> 27
      [] str = "30" -> 30 [] OTHER -> 0

\* New(replicas, fn): no virtual node. The hash is crc32.ChecksumIEEE when fn
\* is nil ("crc32"), else fn: "atoi" is the hash of the ring's test, the
\* decimal value of the bytes.
RingNew(replicas, fn) ==
    [replicas |-> replicas, hash |-> fn, keys |-> <<>>, hashMap |-> [h \in {} |-> ""]]

\* m.hash([]byte(strconv.Itoa(i) + peer)) for a peer of one digit under "atoi".
NodeHash(m, i, peer) ==
    IF m.hash = "crc32" THEN VHash(i, peer) ELSE 10 * i + Atoi(peer)

\* m.hash([]byte(key))
HashOf(m, key) ==
    IF m.hash = "crc32" THEN KeyHash(key) ELSE Atoi(key)

\* The elements of a set of numbers in ascending order.
RECURSIVE Ascending(_)
Ascending(S) ==
    IF S = {} THEN <<>>
    ELSE LET m == CHOOSE x \in S : \A y \in S : x <= y
         IN <<m>> \o Ascending(S \ {m})

\* Map.Add(peers...) that hands the virtual nodes already on the ring to the
\* owner of the first of them.
RingAddRemap(m, peers) ==
    LET hs == {NodeHash(m, i, p) : i \in 0..(m.replicas - 1), p \in peers}
        peerOf(h) == CHOOSE p \in peers : \E i \in 0..(m.replicas - 1) : NodeHash(m, i, p) = h
    IN [m EXCEPT !.keys = SortSeq(m.keys \o Ascending(hs), LAMBDA a, b : a < b),
                 !.hashMap = [h \in (DOMAIN m.hashMap) \cup hs |->
                                 IF h \in hs THEN peerOf(h) ELSE m.hashMap[m.keys[1]]]]

\* Map.Add(peers...): the hashes of the virtual nodes are appended, each is
\* mapped to its peer, and the hashes are sorted.
RingAdd(m, peers) ==
    LET hs == {NodeHash(m, i, p) : i \in 0..(m.replicas - 1), p \in peers}
        peerOf(h) == CHOOSE p \in peers : \E i \in 0..(m.replicas - 1) : NodeHash(m, i, p) = h
    IN [m EXCEPT !.keys = SortSeq(m.keys \o Ascending(hs), LAMBDA a, b : a < b),
                 !.hashMap = [h \in (DOMAIN m.hashMap) \cup hs |->
                                 IF h \in hs THEN peerOf(h) ELSE m.hashMap[h]]]

\* Map.Get(key) that does not wrap: past the last virtual node it answers
\* with the last one.
RingGetNoWrap(m, key) ==
    IF Len(m.keys) = 0 THEN ""
    ELSE LET at == {i \in 1..Len(m.keys) : m.keys[i] >= HashOf(m, key)}
             idx == IF at = {} THEN Len(m.keys) ELSE CHOOSE i \in at : \A j \in at : i <= j
         IN m.hashMap[m.keys[idx]]

\* Map.Get(key): "" on the empty ring; else the peer of the first virtual
\* node at or after the key's hash, the first of all when there is none.
RingGet(m, key) ==
    IF Len(m.keys) = 0 THEN ""
    ELSE LET at == {i \in 1..Len(m.keys) : m.keys[i] >= HashOf(m, key)}
             idx == IF at = {} THEN 1 ELSE CHOOSE i \in at : \A j \in at : i <= j
         IN m.hashMap[m.keys[idx]]

\* ---------------------------------------- the ring under test (SpecRing)

\* New(3, ...) of TestHashing.
TestReplicas == 3

\* The peers and the keys of TestHashing, and two more keys: "9" between the
\* virtual nodes, "30" past the last of them.
RPeers == {"2", "4", "6", "8"}
RKeys == {"2", "9", "11", "23", "27", "30"}

\* An object under test on its own: a process with no container in use, no
\* call in flight, no group and no cluster.
OnItsOwn ==
    /\ now = 0
    /\ variant = "lru"
    /\ lru = LruNew(0) /\ lfu = LfuNew(0)
    /\ lruPc = "idle"
    /\ lruStalled = FALSE
    /\ OpInit(FALSE)
    /\ SfInit
    /\ GroupVarsInit(0)
    /\ NoCluster

\* What a step of an object under test leaves alone.
others == <<cvars, svars, gvars, cluster>>

\* What a step of the ring under test leaves alone.
notRing == <<others, nvars, hvars, wvars, kvars, lvars>>

\* The peers on the ring under test.
RingPeers == UNION {ringAdded[i] : i \in 1..Len(ringAdded)}

\* hash := New(3, func(key []byte) uint32 { i, _ := strconv.Atoi(string(key)); return uint32(i) })
RingInit ==
    /\ OnItsOwn
    /\ NoRegistry
    /\ rpc = NoRpc
    /\ NoWrapper
    /\ NoStats
    /\ NoServer
    /\ ring = RingNew(TestReplicas, "atoi")
    /\ ringAdded = <<>>
    /\ looked = <<>>

\* hash.Add(peers...)
RingAddPeers(peers) ==
    /\ peers # {}
    /\ ring' = RingAdd(ring, peers)
    /\ ringAdded' = Append(ringAdded, peers)
    /\ UNCHANGED <<looked, notRing>>

\* hash.Get(key)
RingLookup(key) ==
    /\ looked' = <<key, RingGet(ring, key)>>
    /\ UNCHANGED <<ring, ringAdded, notRing>>

RingNext ==
    \/ \E peers \in SUBSET (RPeers \ RingPeers) : RingAddPeers(peers)
    \/ \E key \in RKeys : RingLookup(key)

SpecRing == RingInit /\ [][RingNext]_vars

\* ------------------------------- the registry of groups (SpecRegistry)

\* The number of groups a behaviour makes.
MaxGroups == 2

\* The CacheType arguments of NewGroup: the two algorithms and another word.
Policies == {"lru", "lfu", "fifo"}

\* The getter arguments of NewGroup: a function or nil.
Getters == {"fn", Nil}

\* The pickers RegisterPeers is called with: two servers or nil.
Pickers == {"s1", "s2", Nil}

\* What a step of the registry leaves alone.
notRegistry == <<others, rvars, hvars, wvars, kvars, lvars>>

\* mu.Unlock() that does not run.
MuUnlockNever(m) == m

\* mu.Unlock(), deferred in NewGroup: it runs when NewGroup returns and when
\* it panics.
MuUnlock(m) == "free"

\* g := &Group{...} with the cache of the algorithm; peers is nil.
GroupObj(name, CacheType) == [name |-> name, cache |-> CacheType, peers |-> Nil]

\* NewGroup(name, cacheBytes, CacheType, getter): a nil getter panics before
\* the lock is taken; a CacheType that is neither algorithm panics under the
\* lock, before groups[name] = g.
NewGroupCall(name, CacheType, getter) ==
    /\ Len(objs) < MaxGroups
    /\ mu = "free"
    /\ IF getter = Nil
       THEN /\ setup' = [op |-> "NewGroup", name |-> name, g |-> 0, arg |-> CacheType,
                         getter |-> getter, out |-> "panic: nil Getter"]
            /\ UNCHANGED <<mu, groups, objs>>
       ELSE IF CacheType \notin {"lru", "lfu"}
       THEN /\ setup' = [op |-> "NewGroup", name |-> name, g |-> 0, arg |-> CacheType,
                         getter |-> getter, out |-> "panic: Please select the correct algorithm!"]
            /\ mu' = MuUnlock("NewGroup")
            /\ UNCHANGED <<groups, objs>>
       ELSE /\ objs' = Append(objs, GroupObj(name, CacheType))
            /\ groups' = [groups EXCEPT ![name] = Len(objs) + 1]
            /\ mu' = MuUnlock("NewGroup")
            /\ setup' = [op |-> "NewGroup", name |-> name, g |-> Len(objs) + 1,
                         arg |-> CacheType, getter |-> getter, out |-> "ok"]
    /\ UNCHANGED <<regPc, notRegistry>>

\* GetGroup(name): the group registered under the name, nil (0) when none is.
GetGroupCall(name) ==
    /\ mu = "free"
    /\ setup' = [op |-> "GetGroup", name |-> name, g |-> groups[name], arg |-> "",
                 getter |-> "", out |-> "ok"]
    /\ UNCHANGED <<mu, groups, objs, regPc, notRegistry>>

\* g.RegisterPeers(peers) without its test of g.peers: every call goes on to
\* the assignment.
RegisterPeersUnchecked(t, g, peers) ==
    /\ regPc[t] = <<>>
    /\ g \in 1..Len(objs)
    /\ regPc' = [regPc EXCEPT ![t] = <<g, peers>>]
    /\ UNCHANGED <<setup, mu, groups, objs, notRegistry>>

\* g.RegisterPeers(peers) up to its test of g.peers: with a picker set the
\* call panics; else it goes on to the assignment. No lock is taken.
RegisterPeersCheck(t, g, peers) ==
    /\ regPc[t] = <<>>
    /\ g \in 1..Len(objs)
    /\ IF objs[g].peers # Nil
       THEN /\ setup' = [op |-> "RegisterPeers", name |-> objs[g].name, g |-> g, arg |-> peers,
                         getter |-> "", out |-> "panic: RegisterPeerPicker called more than once"]
            /\ UNCHANGED regPc
       ELSE /\ regPc' = [regPc EXCEPT ![t] = <<g, peers>>]
            /\ UNCHANGED setup
    /\ UNCHANGED <<mu, groups, objs, notRegistry>>

\* g.peers = peers
RegisterPeersSet(t) ==
    /\ regPc[t] # <<>>
    /\ objs' = [objs EXCEPT ![regPc[t][1]].peers = regPc[t][2]]
    /\ setup' = [op |-> "RegisterPeers", name |-> objs[regPc[t][1]].name, g |-> regPc[t][1],
                 arg |-> regPc[t][2], getter |-> "", out |-> "ok"]
    /\ regPc' = [regPc EXCEPT ![t] = <<>>]
    /\ UNCHANGED <<mu, groups, notRegistry>>

RegistryInit ==
    /\ OnItsOwn
    /\ NoRing
    /\ NoRegistry
    /\ rpc = NoRpc
    /\ NoWrapper
    /\ NoStats
    /\ NoServer

RegistryNext ==
    \/ \E name \in SNames, CacheType \in Policies, getter \in Getters :
          NewGroupCall(name, CacheType, getter)
    \/ \E name \in SNames : GetGroupCall(name)
    \/ \E t \in STasks, g \in 1..MaxGroups, peers \in Pickers : RegisterPeersCheck(t, g, peers)
    \/ \E t \in STasks : RegisterPeersSet(t)

SpecRegistry == RegistryInit /\ [][RegistryNext]_vars

\* ------------------------------ the cache wrapper under test (SpecWrapper)

\* The tasks that call add and get on the wrapper.
WTasks == {"t1", "t2"}

\* The calls of add and get a behaviour makes on the wrapper.
MaxWrapCalls == 4

\* The keys of the calls.
WKeys == {"t", "j"}

\* A task in no call.
WIdle == [pc |-> "idle", key |-> "", value |-> ""]

\* What a step of the wrapper leaves alone.
notWrapper == <<variant, lru, lruPc, lruStalled, lfu, onEvicted, lastOp, fired, script,
                svars, gvars, cluster, rvars, nvars, hvars, kvars, lvars>>

\* add(key, value) up to the container's Add: c.mu.Lock() waits for the
\* writer and the readers to leave.
WrapAddLock(t, k, v) ==
    /\ wtask[t] = WIdle
    /\ wcalls < MaxWrapCalls
    /\ wcalls' = wcalls + 1
    /\ wmu.w = Nil /\ wmu.r = {}
    /\ wmu' = [wmu EXCEPT !.w = t]
    /\ wtask' = [wtask EXCEPT ![t] = [pc |-> "add", key |-> k, value |-> v]]
    /\ UNCHANGED <<wrap, now, notWrapper>>

\* The rest of add: the container is made when there is none, Add is called
\* on it, and the deferred c.mu.Unlock() runs.
WrapAddDo(t) ==
    /\ wtask[t].pc = "add"
    /\ wrap' = WAdd(wrap, wtask[t].key, wtask[t].value, now, 0)
    /\ wmu' = [wmu EXCEPT !.w = Nil]
    /\ wtask' = [wtask EXCEPT ![t] = WIdle]
    /\ UNCHANGED <<wcalls, now, notWrapper>>

\* get(key) up to the container's Get: c.mu.RLock() waits for the writer to
\* leave, not for the readers; with no container get returns at once.
WrapGetRLock(t, k) ==
    /\ wtask[t] = WIdle
    /\ wcalls < MaxWrapCalls
    /\ wcalls' = wcalls + 1
    /\ wmu.w = Nil
    /\ IF wrap.nil
       THEN UNCHANGED <<wmu, wtask>>
       ELSE /\ wmu' = [wmu EXCEPT !.r = @ \cup {t}]
            /\ wtask' = [wtask EXCEPT ![t] = [pc |-> "get", key |-> k, value |-> ""]]
    /\ UNCHANGED <<wrap, now, notWrapper>>

\* The container's operation a task is in changes the container: Add; Get of
\* a key the container stores (the entry is moved to the front or counted up
\* and the heap fixed, or removed as expired).
Mutates(t) ==
    \/ wtask[t].pc = "add"
    \/ wtask[t].pc = "get" /\ wtask[t].key \in WStored(wrap)

\* Another task is in the container with the task, and one of the two
\* changes it.
Raced(t) ==
    \E u \in WTasks \ {t} :
        wtask[u].pc # "idle" /\ (Mutates(t) \/ Mutates(u))

\* The rest of get: the container's Get, and the deferred c.mu.RUnlock().
\* What the Get writes while another task is in the container is kept or
\* lost.
WrapGetDo(t) ==
    /\ wtask[t].pc = "get"
    /\ wrap' \in {WGet(wrap, wtask[t].key, now).w} \cup (IF Raced(t) THEN {wrap} ELSE {})
    /\ wmu' = [wmu EXCEPT !.r = @ \ {t}]
    /\ wtask' = [wtask EXCEPT ![t] = WIdle]
    /\ UNCHANGED <<wcalls, now, notWrapper>>

\* Time passes.
WrapTick ==
    /\ now < MaxTime
    /\ now' = now + 1
    /\ UNCHANGED <<wvars, notWrapper>>

\* A wrapper of either algorithm with no byte budget, as a group makes it.
WrapperInit ==
    /\ now = 0
    /\ variant \in {"lru", "lfu"}
    /\ lru = LruNew(0) /\ lfu = LfuNew(0)
    /\ lruPc = "idle"
    /\ lruStalled = FALSE
    /\ OpInit(FALSE)
    /\ SfInit
    /\ GroupVarsInit(0)
    /\ NoCluster
    /\ NoRing
    /\ NoRegistry
    /\ rpc = NoRpc
    /\ NoStats
    /\ NoServer
    /\ wrap = WNew(0)
    /\ wmu = [w |-> Nil, r |-> {}]
    /\ wtask = [t \in WTasks |-> WIdle]
    /\ wcalls = 0

WrapperNext ==
    \/ \E t \in WTasks, k \in WKeys : WrapAddLock(t, k, DB[k])
    \/ \E t \in WTasks : WrapAddDo(t)
    \/ \E t \in WTasks, k \in WKeys : WrapGetRLock(t, k)
    \/ \E t \in WTasks : WrapGetDo(t)
    \/ WrapTick

SpecWrapper == WrapperInit /\ [][WrapperNext]_vars

\* ------------------------------------------------------ geecache.Server

\* NewServer(self)
NewServer(self) == [self |-> self, peers |-> RingNew(Replicas, "crc32"), clients |-> {}, down |-> FALSE]

\* Server.Set(peersAddr...): the addresses join the ring and each gets a
\* client handle.
ServerSet(s, peersAddr) ==
    [s EXCEPT !.peers = RingAdd(s.peers, peersAddr), !.clients = s.clients \cup peersAddr]

\* s.clients[peerAddr]: the handle of the address, nil for an address the map
\* does not hold.
ClientOf(s, peerAddr) == IF peerAddr \in s.clients THEN peerAddr ELSE Nil

\* A PickPeer that does not look at the server's own address.
ServerPickPeerAny(s, key) ==
    [addr |-> RingGet(s.peers, key), peer |-> ClientOf(s, RingGet(s.peers, key)), ok |-> TRUE]

\* Server.PickPeer(key)
ServerPickPeer(s, key) ==
    LET peerAddr == RingGet(s.peers, key)
    IN IF peerAddr = s.self
       THEN [addr |-> peerAddr, peer |-> Nil, ok |-> FALSE]
       ELSE [addr |-> peerAddr, peer |-> ClientOf(s, peerAddr), ok |-> TRUE]

\* proto.Marshal(&pb.Response{Value: view.ByteSlice()})
Marshal(value) == <<"pb.Response", value>>

\* proto.Unmarshal(response.GetValue(), out); out.Value
Unmarshal(body) == body[2]

\* ----------------------------------- the life of a server (SpecServer)

\* The tasks that call Start, Stop and Set on the server.
LTasks == {"c1", "c2"}

\* The calls of Start that get as far as making a stop channel.
MaxStarts == 2

\* A caller in no call that has made none.
LIdle == [op |-> "", pc |-> "idle", ret |-> ""]

\* No registry task and no listener.
NoTask == [pc |-> "none", ch |-> 0, lis |-> "none"]

\* What a step of the server's life leaves alone.
notServer == <<others, rvars, nvars, hvars, wvars, kvars>>

\* The process runs.
Alive == exited = ""

\* s.mu.Unlock()
Unlock(s) == [s EXCEPT !.mu = "free"]

\* A second Start that returns its error without s.mu.Unlock().
AlreadyStartedLocked(s) == s

\* if s.status == true { s.mu.Unlock(); return fmt.Errorf("server already started") }
AlreadyStarted(s) == Unlock(s)

\* A Stop that leaves the ring.
StoppedKeepsPeers(s) == [s EXCEPT !.status = FALSE, !.clients = [nil |-> TRUE, m |-> {}]]

\* s.status = false; s.clients = nil; s.peers = nil
Stopped(s) ==
    [s EXCEPT !.status = FALSE,
              !.clients = [nil |-> TRUE, m |-> {}],
              !.peers = [nil |-> TRUE, m |-> RingNew(Replicas, "crc32")]]

\* s.mu.Lock() of Start.  A behaviour makes MaxStarts stop channels.
StartLock(t) ==
    /\ Alive
    /\ ltask[t].pc = "idle"
    /\ server.mu = "free"
    /\ server.status \/ Len(chans) < MaxStarts
    /\ server' = [server EXCEPT !.mu = t]
    /\ ltask' = [ltask EXCEPT ![t] = [op |-> "Start", pc |-> "locked", ret |-> ""]]
    /\ UNCHANGED <<chans, rtask, exited, notServer>>

\* Start under the lock: a running server is refused; else the server is
\* marked running and gets a new stop channel.
StartCheck(t) ==
    /\ Alive
    /\ ltask[t].op = "Start" /\ ltask[t].pc = "locked"
    /\ IF server.status
       THEN /\ server' = AlreadyStarted(server)
            /\ ltask' = [ltask EXCEPT ![t].pc = "idle", ![t].ret = "server already started"]
            /\ UNCHANGED chans
       ELSE /\ chans' = Append(chans, "open")
            /\ server' = [server EXCEPT !.status = TRUE, !.stopSignal = Len(chans) + 1]
            /\ ltask' = [ltask EXCEPT ![t].pc = "listen"]
    /\ UNCHANGED <<rtask, exited, notServer>>

\* net.Listen: when the port is bound the registry task is spawned, the
\* lock released and Serve entered; when it is not, Start returns its error
\* as it is, the lock held and the server marked running.
StartListen(t, bound) ==
    /\ Alive
    /\ ltask[t].pc = "listen"
    /\ IF bound
       THEN /\ rtask' = [rtask EXCEPT ![t] = [pc |-> "setup", ch |-> 0, lis |-> "open"]]
            /\ server' = Unlock(server)
            /\ ltask' = [ltask EXCEPT ![t].pc = "serve"]
       ELSE /\ ltask' = [ltask EXCEPT ![t].pc = "idle", ![t].ret = "failed to listen"]
            /\ UNCHANGED <<server, rtask>>
    /\ UNCHANGED <<chans, exited, notServer>>

\* grpcServer.Serve(lis) returns an error once the listener is closed; Start
\* returns it when s.status is still true, and nil when it is not.
StartServed(t) ==
    /\ Alive
    /\ ltask[t].pc = "serve"
    /\ rtask[t].lis = "closed"
    /\ ltask' = [ltask EXCEPT ![t].pc = "idle",
                              ![t].ret = IF server.status THEN "failed to serve" ELSE "nil"]
    /\ UNCHANGED <<server, chans, rtask, exited, notServer>>

\* registry.Register up to its loop, with the stop channel the server has
\* when the task starts: a failure of the etcd client, the lease, the put or
\* the keep-alive is returned, and log.Fatalf ends the process.
RegisterSetup(t, ok) ==
    /\ Alive
    /\ rtask[t].pc = "setup"
    /\ IF ok
       THEN /\ rtask' = [rtask EXCEPT ![t].pc = "loop", ![t].ch = server.stopSignal]
            /\ UNCHANGED exited
       ELSE /\ exited' = "log.Fatalf"
            /\ UNCHANGED rtask
    /\ UNCHANGED <<server, chans, ltask, notServer>>

\* case err := <-stop, together with s.stopSignal <- nil of the Stop that
\* sends on the same channel.
RegisterSignalled(t, u) ==
    /\ Alive
    /\ rtask[t].pc = "loop"
    /\ ltask[u].pc = "send"
    /\ server.stopSignal = rtask[t].ch
    /\ chans[rtask[t].ch] = "open"
    /\ rtask' = [rtask EXCEPT ![t].pc = "closing"]
    /\ ltask' = [ltask EXCEPT ![u].pc = "sent"]
    /\ UNCHANGED <<server, chans, exited, notServer>>

\* case <-cli.Ctx().Done(), or the keep-alive channel closed: Register
\* returns nil, or the error of Revoke, on which log.Fatalf ends the process.
RegisterLost(t, err) ==
    /\ Alive
    /\ rtask[t].pc = "loop"
    /\ IF err
       THEN /\ exited' = "log.Fatalf"
            /\ UNCHANGED rtask
       ELSE /\ rtask' = [rtask EXCEPT ![t].pc = "closing"]
            /\ UNCHANGED exited
    /\ UNCHANGED <<server, chans, ltask, notServer>>

\* close(s.stopSignal), of the channel the server has now, and lis.Close();
\* closing a closed channel panics.
RegisterClose(t) ==
    /\ Alive
    /\ rtask[t].pc = "closing"
    /\ IF chans[server.stopSignal] = "closed"
       THEN /\ exited' = "panic: close of closed channel"
            /\ UNCHANGED <<chans, rtask>>
       ELSE /\ chans' = [chans EXCEPT ![server.stopSignal] = "closed"]
            /\ rtask' = [rtask EXCEPT ![t].pc = "done", ![t].lis = "closed"]
            /\ UNCHANGED exited
    /\ UNCHANGED <<server, ltask, notServer>>

\* s.mu.Lock() of Stop
StopLock(t) ==
    /\ Alive
    /\ ltask[t].pc = "idle"
    /\ server.mu = "free"
    /\ server' = [server EXCEPT !.mu = t]
    /\ ltask' = [ltask EXCEPT ![t] = [op |-> "Stop", pc |-> "locked", ret |-> ""]]
    /\ UNCHANGED <<chans, rtask, exited, notServer>>

\* Stop under the lock: on a server not marked running it unlocks and
\* returns; else it comes to the send on the stop channel.
StopCheck(t) ==
    /\ Alive
    /\ ltask[t].op = "Stop" /\ ltask[t].pc = "locked"
    /\ IF ~server.status
       THEN /\ server' = Unlock(server)
            /\ ltask' = [ltask EXCEPT ![t].pc = "idle", ![t].ret = "returned"]
       ELSE /\ ltask' = [ltask EXCEPT ![t].pc = "send"]
            /\ UNCHANGED server
    /\ UNCHANGED <<chans, rtask, exited, notServer>>

\* s.stopSignal <- nil on a closed channel panics.
StopSendClosed(t) ==
    /\ Alive
    /\ ltask[t].pc = "send"
    /\ chans[server.stopSignal] = "closed"
    /\ exited' = "panic: send on closed channel"
    /\ UNCHANGED <<server, chans, ltask, rtask, notServer>>

\* The rest of Stop after the send: the server is marked stopped, clients
\* and peers are set to nil, and the lock is released.
StopFinish(t) ==
    /\ Alive
    /\ ltask[t].pc = "sent"
    /\ server' = Unlock(Stopped(server))
    /\ ltask' = [ltask EXCEPT ![t].pc = "idle", ![t].ret = "returned"]
    /\ UNCHANGED <<chans, rtask, exited, notServer>>

\* Set(peersAddr...) of main.go, on a server with no peers yet: under the
\* lock the addresses join the ring and get a client each; on the nil ring
\* s.peers.Add dereferences nil and the process panics.
ServerSetCall(t) ==
    /\ Alive
    /\ ltask[t].pc = "idle"
    /\ server.mu = "free"
    /\ server.clients.m = {}
    /\ IF server.peers.nil
       THEN /\ exited' = "panic: nil pointer dereference"
            /\ UNCHANGED <<server, ltask>>
       ELSE /\ server' = [server EXCEPT !.peers.m = RingAdd(@, Addrs),
                                        !.clients.m = Addrs]
            /\ ltask' = [ltask EXCEPT ![t] = [op |-> "Set", pc |-> "idle", ret |-> "returned"]]
            /\ UNCHANGED exited
    /\ UNCHANGED <<chans, rtask, notServer>>

\* PickPeer(key), as the load of a Group.Get that missed both caches calls it
\* on its registered picker: under the lock the ring gives the key's owner;
\* on the nil ring s.peers.Get dereferences nil and the process panics.
ServerPickPeerCall(t, key) ==
    /\ Alive
    /\ ltask[t].pc = "idle"
    /\ server.mu = "free"
    /\ IF server.peers.nil
       THEN /\ exited' = "panic: nil pointer dereference"
            /\ UNCHANGED <<server, ltask>>
       ELSE /\ ltask' = [ltask EXCEPT ![t] =
                           [op |-> "PickPeer", pc |-> "idle",
                            ret |-> IF RingGet(server.peers.m, key) = server.self
                                    THEN "nil, false" ELSE "client, true"]]
            /\ UNCHANGED <<server, exited>>
    /\ UNCHANGED <<chans, rtask, notServer>>

\* NewServer(self)
ServerInit ==
    /\ OnItsOwn
    /\ NoRing
    /\ NoRegistry
    /\ rpc = NoRpc
    /\ NoWrapper
    /\ NoStats
    /\ server = [self |-> "n1", status |-> FALSE, stopSignal |-> 0, mu |-> "free",
                 peers |-> [nil |-> FALSE, m |-> RingNew(Replicas, "crc32")],
                 clients |-> [nil |-> FALSE, m |-> {}]]
    /\ chans = <<>>
    /\ ltask = [t \in LTasks |-> LIdle]
    /\ rtask = [t \in LTasks |-> NoTask]
    /\ exited = ""

ServerNext ==
    \/ \E t \in LTasks : StartLock(t)
    \/ \E t \in LTasks : StartCheck(t)
    \/ \E t \in LTasks, bound \in BOOLEAN : StartListen(t, bound)
    \/ \E t \in LTasks : StartServed(t)
    \/ \E t \in LTasks, ok \in BOOLEAN : RegisterSetup(t, ok)
    \/ \E t \in LTasks, u \in LTasks : RegisterSignalled(t, u)
    \/ \E t \in LTasks, err \in BOOLEAN : RegisterLost(t, err)
    \/ \E t \in LTasks : RegisterClose(t)
    \/ \E t \in LTasks : StopLock(t)
    \/ \E t \in LTasks : StopCheck(t)
    \/ \E t \in LTasks : StopSendClosed(t)
    \/ \E t \in LTasks : StopFinish(t)
    \/ \E t \in LTasks : ServerSetCall(t)
    \/ \E t \in LTasks, key \in SKeys : ServerPickPeerCall(t, key)

SpecServer == ServerInit /\ [][ServerNext]_vars

\* ------------------------------------------------- the peers' groups

\* The keys clients ask the peers for; "" is the empty key.
PKeys == {"", "t", "u"}

KeyRequired == "key is required"

\* What a caller has of a panic of its process.
Panic == "panic"

maxMinuteRemoteQPS == 10

\* NewGroup on a peer: the caches, no KeyStats, no peer picker, an empty
\* single-flight table.
NewGroup(cacheBytes) ==
    [mainCache |-> WNew(cacheBytes), hotCache |-> WNew(cacheBytes \div 8),
     keys |-> [k \in {} |-> 0], peers |-> FALSE, loader |-> {}]

\* math.Round(float64(now - firstGetTime) / 60), the clock in ticks of which
\* GroupTTL make a minute.
RoundMinutes(d) == (2 * d + GroupTTL) \div (2 * GroupTTL)

\* A rate per second instead of per minute.
QpsPerSecond(remoteCnt, firstGetTime, t) == remoteCnt \div 60

\* A rate that is the count, whatever time has passed.
QpsNoInterval(remoteCnt, firstGetTime, t) == remoteCnt

\* qps := stat.remoteCnt.Get() / int64(math.Max(1, math.Round(interval)))
Qps(remoteCnt, firstGetTime, t) ==
    LET r == RoundMinutes(t - firstGetTime)
    IN remoteCnt \div (IF r < 1 THEN 1 ELSE r)

\* The loop at the end of LRUCache.Add at time t, as far as it gets: it ends
\* under the budget, or stays where RemoveOldest finds nothing expired.
RECURSIVE LruDrain(_, _)
LruDrain(c, t) ==
    IF LruOver(c) /\ LruRemoveOldest(c, t) # c THEN LruDrain(LruRemoveOldest(c, t), t) ELSE c

\* LRUcache.add / LFUcache.add as far as it gets at time t.
WAddDrain(w, k, v, t, jitter) ==
    LET a == WAdd(w, k, v, t, jitter)
    IN IF variant = "lru" THEN [a EXCEPT !.c = LruDrain(a.c, t)] ELSE a

\* add is still in the loop of LRUCache.Add.
Spinning(w) == variant = "lru" /\ ~w.nil /\ LruOver(w.c)

\* A Get in progress on a peer: where it is, the client handle it picked, and
\* the value and error it has.
Frame(n, k) ==
    [node |-> n, key |-> k, pc |-> "get", peer |-> Nil, value |-> "", err |-> NoErr,
     spinOn |-> ""]

\* The Get that runs: a client's, or the one serving the RPC the client's Get
\* waits for.
Top == stack[Len(stack)]

SetTop(f) == [stack EXCEPT ![Len(stack)] = f]

\* The Get returns (value, err).
Returns(f, value, err) == [f EXCEPT !.pc = "ret", !.value = value, !.err = err]

\* A closure of load that returns the error of getFromPeer.
PeerFailedReturn(f) == Returns(f, "", "rpc error")

\* The closure of load after getFromPeer returned an error: the error is
\* logged and the closure goes on to getLocally.
PeerFailed(f) == [f EXCEPT !.pc = "local"]

\* A Get that takes any key.
KeyMissingNever(key) == FALSE

\* if key == "" in Group.Get
KeyMissing(key) == key = ""

\* The times of the successful remote fetches after one more, of k on n.
Fetched(n, k) == [fetched EXCEPT ![n][k] = Append(@, now)]

\* A client calls Group.Get(k) on peer n.
ClientGet(n, k) ==
    /\ stack = <<>>
    /\ ~srv[n].down
    /\ stack' = <<Frame(n, k)>>
    /\ trace' = <<>>
    /\ last' = NoGet
    /\ gets' = gets + 1
    /\ UNCHANGED <<srv, grp, fetched, cvars, svars, gvars, xvars>>

\* Group.Get up to load: the empty key is refused, the hot cache is asked,
\* then the main cache.
PeerGroupGet ==
    /\ stack # <<>>
    /\ Top.pc = "get"
    /\ LET n == Top.node
           k == Top.key
           hot == WGet(grp[n].hotCache, k, now)
           main == WGet(grp[n].mainCache, k, now)
       IN IF KeyMissing(k)
          THEN /\ stack' = SetTop(Returns(Top, "", KeyRequired))
               /\ UNCHANGED <<grp, trace>>
          ELSE IF hot.ok
          THEN /\ grp' = [grp EXCEPT ![n].hotCache = hot.w]
               /\ trace' = Append(trace, <<"hot", n, "hit">>)
               /\ stack' = SetTop(Returns(Top, hot.value, NoErr))
          ELSE /\ grp' = [grp EXCEPT ![n].hotCache = hot.w, ![n].mainCache = main.w]
               /\ trace' = trace \o <<<<"hot", n, "miss">>,
                                      <<"main", n, IF main.ok THEN "hit" ELSE "miss">>>>
               /\ stack' = SetTop(IF main.ok THEN Returns(Top, main.value, NoErr)
                                  ELSE [Top EXCEPT !.pc = "load"])
    /\ UNCHANGED <<srv, last, gets, fetched, cvars, svars, gvars, xvars>>

\* load: g.loader.Do(key, fn) enters the key in the single-flight table and
\* runs fn, which asks the peer picker when one is registered.
PeerLoad ==
    /\ stack # <<>>
    /\ Top.pc = "load"
    /\ LET n == Top.node
           k == Top.key
           pick == ServerPickPeer(srv[n], k)
       IN /\ grp' = [grp EXCEPT ![n].loader = @ \cup {k}]
          /\ IF ~grp[n].peers
             THEN /\ trace' = Append(trace, <<"do", n, k>>)
                  /\ stack' = SetTop([Top EXCEPT !.pc = "local"])
             ELSE /\ trace' = trace \o <<<<"do", n, k>>, <<"pick", n, pick>>>>
                  /\ stack' = SetTop(IF pick.ok
                                     THEN [Top EXCEPT !.pc = "peer", !.peer = pick.peer]
                                     ELSE [Top EXCEPT !.pc = "local"])
    /\ UNCHANGED <<srv, last, gets, fetched, cvars, svars, gvars, xvars>>

\* getFromPeer: peer.Get(req, res) on a client handle.  The RPC reaches the
\* peer, whose Server.Get calls Get on its group (the key is not empty and
\* the group exists there), or it fails: no service found, no connection, no
\* answer in time, or the peer is down.
PeerGetFromPeer(arrives) ==
    /\ stack # <<>>
    /\ Top.pc = "peer"
    /\ Top.peer # Nil
    /\ IF arrives /\ ~srv[Top.peer].down
       THEN /\ stack' = Append(SetTop([Top EXCEPT !.pc = "await"]), Frame(Top.peer, Top.key))
            /\ trace' = Append(trace, <<"rpc", Top.node, Top.peer>>)
       ELSE /\ stack' = SetTop(PeerFailed(Top))
            /\ trace' = trace \o <<<<"rpc", Top.node, Top.peer>>, <<"peererr", Top.node, "">>>>
    /\ UNCHANGED <<srv, grp, last, gets, fetched, cvars, svars, gvars, xvars>>

\* getFromPeer on the nil *Client that PickPeer returned: Client.Get returns
\* the error of clientv3.New, or reads g.baseURL of the nil pointer and the
\* process panics.  A panic ends the client's Get, or fails the RPC that the
\* Get was serving.
PeerGetFromNil(panics) ==
    /\ stack # <<>>
    /\ Top.pc = "peer"
    /\ Top.peer = Nil
    /\ IF ~panics
       THEN /\ stack' = SetTop(PeerFailed(Top))
            /\ trace' = Append(trace, <<"peererr", Top.node, "">>)
            /\ UNCHANGED <<srv, last>>
       ELSE /\ srv' = [srv EXCEPT ![Top.node].down = TRUE]
            /\ IF Len(stack) = 1
               THEN /\ stack' = <<>>
                    /\ last' = [node |-> Top.node, key |-> Top.key, value |-> "",
                                err |-> Panic, done |-> TRUE]
                    /\ trace' = Append(trace, <<"panic", Top.node, "">>)
               ELSE /\ stack' = <<PeerFailed(stack[Len(stack) - 1])>>
                    /\ trace' = trace \o <<<<"panic", Top.node, "">>,
                                           <<"peererr", stack[Len(stack) - 1].node, "">>>>
                    /\ UNCHANGED last
    /\ UNCHANGED <<grp, gets, fetched, cvars, svars, gvars, xvars>>

\* Server.Get returns to the Client.Get that called it: an error of the
\* group's Get is the RPC's error; a value is marshalled into the response
\* and unmarshalled from it.
ServerReturn ==
    /\ Len(stack) > 1
    /\ Top.pc = "ret"
    /\ LET caller == stack[Len(stack) - 1]
       IN IF Top.err # NoErr
          THEN /\ stack' = <<PeerFailed(caller)>>
               /\ trace' = Append(trace, <<"peererr", caller.node, "">>)
          ELSE /\ stack' = <<[caller EXCEPT !.pc = "stat",
                                             !.value = Unmarshal(Marshal(Top.value))]>>
               /\ UNCHANGED trace
    /\ UNCHANGED <<srv, grp, last, gets, fetched, cvars, svars, gvars, xvars>>

\* The rest of getFromPeer after peer.Get returned nil: the KeyStats of the
\* key are created or counted up, the key is put in the hot cache when its
\* rate reaches maxMinuteRemoteQPS and its KeyStats are deleted; the closure
\* and Do return the value.
PeerStats(jitter) ==
    /\ stack # <<>>
    /\ Top.pc = "stat"
    /\ LET n == Top.node
           k == Top.key
           g == grp[n]
           known == k \in DOMAIN g.keys
           cnt == IF known THEN g.keys[k].remoteCnt + 1 ELSE 1
           hot == known /\ Qps(cnt, g.keys[k].firstGetTime, now) >= maxMinuteRemoteQPS
           added == WAddDrain(g.hotCache, k, Top.value, now, jitter)
           spin == hot /\ Spinning(added)
           counted == IF known THEN [g.keys EXCEPT ![k].remoteCnt = cnt]
                      ELSE [x \in DOMAIN g.keys \cup {k} |->
                              IF x = k THEN [firstGetTime |-> now, remoteCnt |-> 1]
                              ELSE g.keys[x]]
           deleted == [x \in DOMAIN g.keys \ {k} |-> g.keys[x]]
       IN /\ grp' = [grp EXCEPT ![n] =
                       [g EXCEPT !.hotCache = IF hot THEN added ELSE g.hotCache,
                                 !.keys = IF hot /\ ~spin THEN deleted ELSE counted,
                                 !.loader = IF spin THEN g.loader ELSE g.loader \ {k}]]
          /\ trace' = trace \o <<<<"fetched", n, k>>>>
                            \o (IF hot THEN <<<<"promote", n, k>>>> ELSE <<>>)
          /\ stack' = SetTop(IF spin THEN [Top EXCEPT !.pc = "spin", !.spinOn = "hot"]
                             ELSE Returns(Top, Top.value, NoErr))
          /\ fetched' = Fetched(n, k)
    /\ UNCHANGED <<srv, last, gets, cvars, svars, gvars, xvars>>

\* getLocally: the getter is called; its error ends the closure and Do; its
\* value goes to the main cache and is returned once add has returned.
PeerGetLocally(jitter) ==
    /\ stack # <<>>
    /\ Top.pc = "local"
    /\ LET n == Top.node
           k == Top.key
           g == grp[n]
           r == Getter(k)
           added == WAddDrain(g.mainCache, k, r[1], now, jitter)
       IN /\ trace' = Append(trace, <<"loader", n, k>>)
          /\ IF Failed(r)
             THEN /\ grp' = [grp EXCEPT ![n].loader = @ \ {k}]
                  /\ stack' = SetTop(Returns(Top, "", r[2]))
             ELSE IF Spinning(added)
             THEN /\ grp' = [grp EXCEPT ![n].mainCache = added]
                  /\ stack' = SetTop([Top EXCEPT !.pc = "spin", !.spinOn = "main",
                                                 !.value = r[1]])
             ELSE /\ grp' = [grp EXCEPT ![n].mainCache = added, ![n].loader = @ \ {k}]
                  /\ stack' = SetTop(Returns(Top, r[1], NoErr))
    /\ UNCHANGED <<srv, last, gets, fetched, cvars, svars, gvars, xvars>>

\* The loop of LRUCache.Add that add is in goes round until an entry has
\* expired; once under the budget add returns, and the Get after it.
PeerSpin ==
    /\ stack # <<>>
    /\ Top.pc = "spin"
    /\ LET n == Top.node
           k == Top.key
           g == grp[n]
           w == IF Top.spinOn = "hot" THEN g.hotCache ELSE g.mainCache
           x == [w EXCEPT !.c = LruDrain(w.c, now)]
           out == ~Spinning(x)
       IN /\ x # w
          /\ grp' = [grp EXCEPT ![n] =
                       [g EXCEPT !.hotCache = IF Top.spinOn = "hot" THEN x ELSE g.hotCache,
                                 !.mainCache = IF Top.spinOn = "main" THEN x ELSE g.mainCache,
                                 !.keys = IF out /\ Top.spinOn = "hot"
                                          THEN [y \in DOMAIN g.keys \ {k} |-> g.keys[y]]
                                          ELSE g.keys,
                                 !.loader = IF out THEN g.loader \ {k} ELSE g.loader]]
          /\ stack' = SetTop(IF out THEN Returns(Top, Top.value, NoErr) ELSE Top)
    /\ UNCHANGED <<srv, trace, last, gets, fetched, cvars, svars, gvars, xvars>>

\* The client's Get returns.
ClientReturn ==
    /\ Len(stack) = 1
    /\ Top.pc = "ret"
    /\ last' = [node |-> Top.node, key |-> Top.key, value |-> Top.value,
                err |-> Top.err, done |-> TRUE]
    /\ stack' = <<>>
    /\ UNCHANGED <<srv, grp, trace, gets, fetched, cvars, svars, gvars, xvars>>

\* peers.Set(addrs...) of main.go on the server of peer n, which has no
\* peers yet.
PeersSet(n) ==
    /\ stack = <<>>
    /\ srv[n].clients = {}
    /\ srv' = [srv EXCEPT ![n] = ServerSet(srv[n], Addrs)]
    /\ UNCHANGED <<grp, stack, trace, last, gets, fetched, cvars, svars, gvars, xvars>>

\* Group.RegisterPeers(peers) on peer n: the server becomes the group's
\* peer picker; a second call panics.
RegisterPeers(n) ==
    /\ stack = <<>>
    /\ ~grp[n].peers
    /\ grp' = [grp EXCEPT ![n].peers = TRUE]
    /\ UNCHANGED <<srv, stack, trace, last, gets, fetched, cvars, svars, gvars, xvars>>

\* ------------------------------------------------------------ SpecPeers

\* The Gets clients call in a behaviour of the cluster.
MaxPeerGets == 2

\* The byte budgets of the peers' groups: none, and one smaller than an
\* entry.
PeerBudgets == {0, 3}

ClusterInit(budgets) ==
    /\ now = 0
    /\ variant \in {"lru", "lfu"}
    /\ lru = LruNew(0)
    /\ lfu = LfuNew(0)
    /\ lruPc = "idle"
    /\ lruStalled = FALSE
    /\ OpInit(FALSE)
    /\ SfInit
    /\ GroupVarsInit(0)
    /\ NoneAlone
    /\ srv = [a \in Addrs |-> NewServer(a)]
    /\ \E b \in budgets : grp = [a \in Addrs |-> NewGroup(b)]
    /\ stack = <<>>
    /\ trace = <<>>
    /\ last = NoGet
    /\ gets = 0
    /\ fetched = [a \in Addrs |-> [k \in PKeys \ {""} |-> <<>>]]

PeersInit == ClusterInit(PeerBudgets)

PeersGet(n, k) == gets < MaxPeerGets /\ ClientGet(n, k)

PeersNext ==
    \/ \E n \in Addrs : PeersSet(n)
    \/ \E n \in Addrs : RegisterPeers(n)
    \/ \E n \in Addrs, k \in PKeys : PeersGet(n, k)
    \/ PeerGroupGet
    \/ PeerLoad
    \/ \E arrives \in BOOLEAN : PeerGetFromPeer(arrives)
    \/ \E panics \in BOOLEAN : PeerGetFromNil(panics)
    \/ ServerReturn
    \/ \E j \in Jitters : PeerStats(j)
    \/ \E j \in Jitters : PeerGetLocally(j)
    \/ PeerSpin
    \/ ClientReturn
    \/ GroupTick

SpecPeers == PeersInit /\ [][PeersNext]_vars

\* ------------------------------------------------------------ SpecStats

\* The tasks in getFromPeer on one group, each for a key of its own: the
\* single-flight group lets one fetch of a key run at a time.
KTasks == {"t1", "t2"}

\* The keys fetched.
KKeys == {"t", "u"}

\* A task outside getFromPeer.
KIdle == [pc |-> "idle", key |-> ""]

\* What a step of getFromPeer after the fetch leaves alone.
notStats == <<others, groups, objs, setup, regPc, rvars, hvars, wvars, lvars>>

\* The places where the next statement of a task reads g.keys, and where it
\* writes it.
KReads == {"lookup"}
KWrites == {"insert", "delete"}

\* The next statement of the task accesses g.keys while that of another task
\* does, and one of the two writes.
KRaced(t) ==
    \E u \in KTasks \ {t} :
        /\ ktask[u].pc \in KReads \cup KWrites
        /\ (ktask[t].pc \in KWrites \/ ktask[u].pc \in KWrites)

\* The runtime may stop the process when it finds a map read or written
\* while it is written ("concurrent map writes"); else the access is done.
KFatal(t) == IF KRaced(t) THEN kfatal' \in BOOLEAN ELSE kfatal' = FALSE

\* peer.Get(req, res) has returned nil for key k.
StatsFetched(t, k) ==
    /\ ~kfatal
    /\ ktask[t] = KIdle
    /\ \A u \in KTasks : ktask[u].key # k
    /\ ktask' = [ktask EXCEPT ![t] = [pc |-> "lookup", key |-> k]]
    /\ UNCHANGED <<kmap, kfatal, mu, now, notStats>>

\* stat, ok := g.keys[key], under no lock.
StatsLookup(t) ==
    /\ ~kfatal
    /\ ktask[t].pc = "lookup"
    /\ KFatal(t)
    /\ ktask' = [ktask EXCEPT ![t].pc = IF ktask[t].key \in DOMAIN kmap
                                        THEN "count" ELSE "insert"]
    /\ UNCHANGED <<kmap, mu, now, notStats>>

\* stat.remoteCnt.Add(1) and the rate: at maxMinuteRemoteQPS the key goes to
\* the hot cache and the task comes to mu.Lock().
StatsCount(t) ==
    /\ ~kfatal
    /\ ktask[t].pc = "count"
    /\ LET k == ktask[t].key
           cnt == kmap[k].remoteCnt + 1
       IN /\ kmap' = [kmap EXCEPT ![k].remoteCnt = cnt]
          /\ ktask' = [ktask EXCEPT ![t] =
                          IF Qps(cnt, kmap[k].firstGetTime, now) >= maxMinuteRemoteQPS
                          THEN [pc |-> "lock", key |-> k] ELSE KIdle]
    /\ UNCHANGED <<kfatal, mu, now, notStats>>

\* mu.Lock()
StatsLock(t) ==
    /\ ~kfatal
    /\ ktask[t].pc = "lock"
    /\ mu = "free"
    /\ mu' = t
    /\ ktask' = [ktask EXCEPT ![t].pc = "delete"]
    /\ UNCHANGED <<kmap, kfatal, now, notStats>>

\* delete(g.keys, key); mu.Unlock()
StatsDelete(t) ==
    /\ ~kfatal
    /\ ktask[t].pc = "delete"
    /\ KFatal(t)
    /\ kmap' = [x \in DOMAIN kmap \ {ktask[t].key} |-> kmap[x]]
    /\ mu' = "free"
    /\ ktask' = [ktask EXCEPT ![t] = KIdle]
    /\ UNCHANGED <<now, notStats>>

\* g.keys[key] = &KeyStats{firstGetTime: time.Now(), remoteCnt: 1}, under no
\* lock.
StatsInsert(t) ==
    /\ ~kfatal
    /\ ktask[t].pc = "insert"
    /\ KFatal(t)
    /\ kmap' = [x \in DOMAIN kmap \cup {ktask[t].key} |->
                  IF x = ktask[t].key THEN [firstGetTime |-> now, remoteCnt |-> 1]
                  ELSE kmap[x]]
    /\ ktask' = [ktask EXCEPT ![t] = KIdle]
    /\ UNCHANGED <<mu, now, notStats>>

\* A group with no KeyStats yet: keys: make(map[string]*KeyStats).
StatsInit ==
    /\ OnItsOwn
    /\ NoRing
    /\ NoRegistry
    /\ rpc = NoRpc
    /\ NoWrapper
    /\ NoServer
    /\ kmap = [k \in {} |-> 0]
    /\ ktask = [t \in KTasks |-> KIdle]
    /\ kfatal = FALSE

StatsNext ==
    \/ \E t \in KTasks, k \in KKeys : StatsFetched(t, k)
    \/ \E t \in KTasks : StatsLookup(t)
    \/ \E t \in KTasks : StatsCount(t)
    \/ \E t \in KTasks : StatsLock(t)
    \/ \E t \in KTasks : StatsDelete(t)
    \/ \E t \in KTasks : StatsInsert(t)

SpecStats == StatsInit /\ [][StatsNext]_vars

\* -------------------------------------------------------------- SpecRpc

\* The name the peers' group is registered under (main.go).
PeerGroup == "scores"

\* view.ByteSlice(): the bytes of a value.
ByteSlice(value) == <<value>>

\* Server.Get(ctx, in) up to g.Get(key): the empty key and a group that
\* GetGroup does not find are answered with the empty response and an error.
ServerGetCall(n, group, key) ==
    /\ stack = <<>>
    /\ rpc.pc # "get"
    /\ ~srv[n].down
    /\ gets < MaxPeerGets
    /\ gets' = gets + 1
    /\ trace' = <<>>
    /\ last' = NoGet
    /\ IF key = ""
       THEN /\ rpc' = [node |-> n, group |-> group, key |-> key, pc |-> "done",
                       value |-> <<>>, err |-> "key required"]
            /\ UNCHANGED stack
       ELSE IF group # PeerGroup
       THEN /\ rpc' = [node |-> n, group |-> group, key |-> key, pc |-> "done",
                       value |-> <<>>, err |-> "group not found"]
            /\ UNCHANGED stack
       ELSE /\ rpc' = [node |-> n, group |-> group, key |-> key, pc |-> "get",
                       value |-> <<>>, err |-> NoErr]
            /\ stack' = <<Frame(n, key)>>
    /\ UNCHANGED <<srv, grp, fetched, cvars, svars, gvars, rvars, nvars, wvars, kvars, lvars>>

\* Server.Get after g.Get(key) returned: its error is returned with the empty
\* response; else the view's bytes are marshalled in a pb.Response and the
\* encoding is the Value of the response returned.
ServerGetReturn ==
    /\ rpc.pc = "get"
    /\ stack = <<>>
    /\ last.done
    /\ rpc' = IF last.err # NoErr
              THEN [rpc EXCEPT !.pc = "done", !.err = last.err]
              ELSE [rpc EXCEPT !.pc = "done", !.value = Marshal(last.value)]
    /\ UNCHANGED <<cluster, cvars, svars, gvars, rvars, nvars, wvars, kvars, lvars>>

RpcInit == ClusterInit(PeerBudgets)

RpcNext ==
    \/ \E n \in Addrs : PeersSet(n)
    \/ \E n \in Addrs : RegisterPeers(n)
    \/ \E n \in Addrs, group \in SNames, k \in PKeys : ServerGetCall(n, group, k)
    \/ PeerGroupGet
    \/ PeerLoad
    \/ \E arrives \in BOOLEAN : PeerGetFromPeer(arrives)
    \/ \E panics \in BOOLEAN : PeerGetFromNil(panics)
    \/ ServerReturn
    \/ \E j \in Jitters : PeerStats(j)
    \/ \E j \in Jitters : PeerGetLocally(j)
    \/ PeerSpin
    \/ ClientReturn
    \/ ServerGetReturn
    \/ GroupTick

SpecRpc == RpcInit /\ [][RpcNext]_vars

\* -------------------------------------------------------------- SpecHot

\* The Gets a client calls on the peer that is not the key's owner.
MaxHotGets == 11

\* The byte budgets of the groups: none, and one whose hot cache (an eighth)
\* is smaller than an entry.
HotBudgets == {0, 16}

\* The cluster of main.go: every server has Set all addresses and is the peer
\* picker of its group.
HotInit ==
    /\ now = 0
    /\ variant \in {"lru", "lfu"}
    /\ lru = LruNew(0)
    /\ lfu = LfuNew(0)
    /\ lruPc = "idle"
    /\ lruStalled = FALSE
    /\ OpInit(FALSE)
    /\ SfInit
    /\ GroupVarsInit(0)
    /\ NoneAlone
    /\ srv = [a \in Addrs |-> ServerSet(NewServer(a), Addrs)]
    /\ \E b \in HotBudgets : grp = [a \in Addrs |-> [NewGroup(b) EXCEPT !.peers = TRUE]]
    /\ stack = <<>>
    /\ trace = <<>>
    /\ last = NoGet
    /\ gets = 0
    /\ fetched = [a \in Addrs |-> [k \in PKeys \ {""} |-> <<>>]]

\* A client calls Get("t") on n1; the key's owner is n2.
HotGet == gets < MaxHotGets /\ ClientGet("n1", "t")

HotNext ==
    \/ HotGet
    \/ PeerGroupGet
    \/ PeerLoad
    \/ \E arrives \in BOOLEAN : PeerGetFromPeer(arrives)
    \/ ServerReturn
    \/ \E j \in Jitters : PeerStats(j)
    \/ \E j \in Jitters : PeerGetLocally(j)
    \/ PeerSpin
    \/ ClientReturn
    \/ GroupTick

SpecHot == HotInit /\ [][HotNext]_vars

\* ----------------------------------------------------------- SpecBudget

\* The byte budgets of the groups: one below 8, and one whose eighth is
\* smaller than an entry.
SmallBudgets == {4, 16}

\* The cluster of main.go with groups made by NewGroup with cacheBytes > 0.
BudgetInit ==
    /\ now = 0
    /\ variant \in {"lru", "lfu"}
    /\ lru = LruNew(0)
    /\ lfu = LfuNew(0)
    /\ lruPc = "idle"
    /\ lruStalled = FALSE
    /\ OpInit(FALSE)
    /\ SfInit
    /\ GroupVarsInit(0)
    /\ NoneAlone
    /\ srv = [a \in Addrs |-> ServerSet(NewServer(a), Addrs)]
    /\ \E b \in SmallBudgets : grp = [a \in Addrs |-> [NewGroup(b) EXCEPT !.peers = TRUE]]
    /\ stack = <<>>
    /\ trace = <<>>
    /\ last = NoGet
    /\ gets = 0
    /\ fetched = [a \in Addrs |-> [k \in PKeys \ {""} |-> <<>>]]

SpecBudget == BudgetInit /\ [][HotNext]_vars

\* --------------------------------- claims on the life of a server

\* C23: a Start that finds the server marked running returns the error
\* "server already started"; the running flag, the stop channel, the ring and
\* the client table are what they were, no channel and no task is made, and
\* the server's mutex is free.
C23_SecondStart ==
    [][\A t \in LTasks :
          (ltask[t].op = "Start" /\ ltask[t].pc = "locked" /\ ltask'[t] # ltask[t]
             /\ server.status)
             => /\ ltask'[t].pc = "idle"
                /\ ltask'[t].ret = "server already started"
                /\ server' = [server EXCEPT !.mu = "free"]
                /\ chans' = chans
                /\ rtask' = rtask
      ]_vars

\* A Start has been refused on a server that is marked running, has peers,
\* and whose registry task is in its loop.
C23_Witness ==
    /\ \E t \in LTasks : ltask[t].op = "Start" /\ ltask[t].ret = "server already started"
    /\ \E u \in LTasks : ltask[u].pc = "serve" /\ rtask[u].pc = "loop"
    /\ server.status
    /\ server.clients.m = Addrs

\* C24: a Stop that finds the server not marked running changes nothing of
\* the server and returns with the mutex free; a Stop that finds it marked
\* running returns only after the registry task has taken its signal, with
\* the server marked stopped, clients and peers nil and the mutex free.  A
\* Stop after a Stop is of the first kind.
C24_StopIdempotent ==
    [][\A t \in LTasks :
          (ltask[t].op = "Stop" /\ ltask[t].pc # "idle" /\ ltask'[t].pc = "idle")
             => /\ ltask'[t].ret = "returned"
                /\ chans' = chans /\ rtask' = rtask
                /\ server'.mu = "free"
                /\ IF ltask[t].pc = "locked"
                   THEN ~server.status /\ server' = [server EXCEPT !.mu = "free"]
                   ELSE /\ server.status
                        /\ \E u \in LTasks :
                              rtask[u].pc \in {"closing", "done"} /\ rtask[u].ch = server.stopSignal
                        /\ ~server'.status
                        /\ server'.clients.nil /\ server'.peers.nil
                        /\ server'.stopSignal = server.stopSignal
      ]_vars

\* Both callers have returned from a Stop: one stopped the running server,
\* the other found it stopped.
C24_Witness ==
    /\ \A t \in LTasks : ltask[t].op = "Stop" /\ ltask[t].pc = "idle" /\ ltask[t].ret = "returned"
    /\ Len(chans) = 1
    /\ ~server.status /\ server.peers.nil /\ server.clients.nil

\* C35 (as claimed): a Start that returns "failed to listen" leaves the
\* server's mutex free and the server not marked running.
C35_StartUnlocks ==
    [][\A t \in LTasks :
          (ltask[t].pc = "listen" /\ ltask'[t].ret = "failed to listen")
             => server'.mu = "free" /\ ~server'.status
      ]_vars

\* C36 (as claimed): when a Stop that found the server marked running is at
\* its send, the stop channel is open and a registry task that receives from
\* it is running.
C36_StopSendReceived ==
    \A t \in LTasks :
        ltask[t].pc = "send" =>
            /\ chans[server.stopSignal] = "open"
            /\ \E u \in LTasks :
                  \/ rtask[u].pc = "setup"
                  \/ rtask[u].pc = "loop" /\ rtask[u].ch = server.stopSignal

\* C37 (as claimed): a Start whose Serve ends once a Stop has sent its signal
\* (the Stop being at the statements after its send, or having cleared the
\* running flag) returns nil.
C37_CleanShutdown ==
    [][\A t \in LTasks :
          (/\ ltask[t].pc = "serve" /\ ltask'[t].pc = "idle"
           /\ \/ ~server.status
              \/ \E u \in LTasks : ltask[u].op = "Stop" /\ ltask[u].pc = "sent")
             => ltask'[t].ret = "nil"
      ]_vars

\* C38 (as claimed): once Stop has set the ring and the client table to nil,
\* no PickPeer and no Set ends in a nil dereference.
C38_UsableAfterStop ==
    [][(server.peers.nil /\ server.clients.nil)
          => exited' # "panic: nil pointer dereference"]_vars

\* ------------------------------------------ claims on the KeyStats

\* C29: a task that is about to insert into g.keys or delete from it holds
\* the registry's lock, and no task is about to read or write g.keys while
\* another is about to write it.
C29_KeysLocked ==
    \A t \in KTasks :
        /\ ktask[t].pc \in KWrites => mu = t
        /\ ~KRaced(t)

\* ------------------------------------------- claims on the wrapper

\* C28: no two tasks are in operations of the wrapper's container at the same
\* time when one of the operations changes the container; Add changes it, and
\* so does a Get of a key it stores.
C28_Serialized ==
    \A t \in WTasks : \A u \in WTasks \ {t} :
        (wtask[t].pc # "idle" /\ wtask[u].pc # "idle") => ~Mutates(t) /\ ~Mutates(u)

\* ----------------------------------------- claims on the Get handler

\* C25: the Get handler answers with an error and no value when the key is
\* empty, when no group is registered under the name, or when the group's Get
\* failed; else it answers with no error and the bytes the group's Get
\* returned.
C25_HandlerResult ==
    rpc.pc = "done"
       => IF rpc.key = "" \/ rpc.group # PeerGroup \/ (last.done /\ last.err # NoErr)
          THEN rpc.err # NoErr /\ rpc.value = <<>>
          ELSE rpc.err = NoErr /\ rpc.value = ByteSlice(last.value)

\* -------------------------------------------- claims on the registry

\* The call a step has made panicked.
Panicked(out) == out \notin {"", "ok"}

C22_NewGroup ==
    [][(setup' # setup /\ setup'.op = "NewGroup")
         => IF setup'.getter = Nil \/ setup'.arg \notin {"lru", "lfu"}
            THEN /\ Panicked(setup'.out)
                 /\ groups' = groups /\ objs' = objs
                 /\ mu' = "free"
            ELSE /\ setup'.out = "ok"
                 /\ setup'.g = Len(objs) + 1
                 /\ objs'[setup'.g].name = setup'.name
                 /\ groups' = [groups EXCEPT ![setup'.name] = setup'.g]
                 /\ mu' = "free"
      ]_vars

\* A NewGroup with another algorithm has panicked in a process where "scores"
\* is registered.
C22_Witness ==
    /\ setup.op = "NewGroup"
    /\ setup.arg = "fifo" /\ setup.getter = "fn"
    /\ Panicked(setup.out)
    /\ groups["scores"] > 0

\* ------------------------------------------------- claims on the ring

\* The virtual nodes of a set of peers under the hash of the ring's test: the
\* place of each and its peer.
VNodes(P) == {<<10 * i + Atoi(p), p>> : i \in 0..(TestReplicas - 1), p \in P}

\* C26: a Get on a ring holding the peers P answers "" when P is empty; else
\* it answers a peer of P, the one owning the virtual node of the least hash
\* at or after the key's hash, or the one owning the virtual node of the
\* least hash of all when no virtual node is at or after the key's hash.
C26_RingLookup ==
    [][looked' # looked
         => LET r == looked'[2]
                hk == Atoi(looked'[1])
                VN == VNodes(RingPeers)
                ge == {v \in VN : v[1] >= hk}
            IN IF RingPeers = {} THEN r = ""
               ELSE /\ r \in RingPeers
                    /\ \E v \in VN :
                          /\ v[2] = r
                          /\ IF ge # {} THEN v \in ge /\ \A w \in ge : v[1] <= w[1]
                             ELSE \A w \in VN : v[1] <= w[1]
      ]_vars

\* "30" is past the last virtual node of "2", "4" and "6" and wraps to the
\* first one, a virtual node of "2".
C26_Witness ==
    /\ RingPeers = {"2", "4", "6"}
    /\ looked = <<"30", "2">>

\* C27: after an Add every key is owned by the peer that owned it before the
\* Add or by a peer the Add has added; with "6", "4" and "2" on the ring of
\* the test, the Add of "8" moves "27" from "2" to "8" and leaves the owners
\* of "2", "11" and "23" as they were.
C27_RingGrowth ==
    [][ringAdded' # ringAdded
         => /\ \A k \in RKeys :
                  RingGet(ring', k) \in {RingGet(ring, k)} \cup ringAdded'[Len(ringAdded')]
            /\ (ringAdded' = <<{"6", "4", "2"}, {"8"}>>)
                  => /\ RingGet(ring, "27") = "2" /\ RingGet(ring', "27") = "8"
                     /\ RingGet(ring', "2") = "2" /\ RingGet(ring, "2") = "2"
                     /\ RingGet(ring', "11") = "2" /\ RingGet(ring, "11") = "2"
                     /\ RingGet(ring', "23") = "4" /\ RingGet(ring, "23") = "4"
      ]_vars

\* The test's two Adds have been made and "27" is looked up after them.
C27_Witness ==
    /\ ringAdded = <<{"6", "4", "2"}, {"8"}>>
    /\ looked = <<"27", "8">>

\* ------------------------------------------------ claims on single-flight

\* The callers that are running fn for key k.
Running(k) == {p \in Procs : pc[p] \in FnPcs /\ pkey[p] = k}

\* C1: for any one key, at no moment do two executions of fn run at the same
\* time through Do.
C1_MutualExclusion == \A k \in SKeys : Cardinality(Running(k)) <= 1

\* C1 witness: a leader runs fn for a key while a second caller waits on its
\* call and a third has already led and finished a call for the same key.
C1_Witness ==
    \E p, q, r \in Procs :
        /\ pc[p] = "fn" /\ pc[q] = "wait" /\ myCall[q] = myCall[p]
        /\ role[r] = "leader" /\ pkey[r] = pkey[p]

\* C2: a follower returns exactly the (value, error) pair the leader's fn
\* returned, never before fn has finished and never the unset pair.
C2_ResultSharing ==
    \A p \in Procs :
        role[p] = "follower" =>
            /\ calls[myCall[p]].leader # p
            /\ calls[myCall[p]].out # Unset
            /\ ret[p] = calls[myCall[p]].out

\* C2 witness: a follower has returned the leader's non-nil error.
C2_Witness ==
    \E p \in Procs : role[p] = "follower" /\ ret[p] = <<NoVal, "err">>

\* Every leader of a call for key k has returned.
AllRetired(k) == \A c \in 1..Len(calls) : calls[c].key = k => calls[c].retired

\* C4: once the leader's Do has returned the table holds no entry for its
\* key and never again holds its call; a Do for the key that starts when the
\* earlier leaders have returned runs its own fn on a fresh call, and a leader
\* returns what its own fn returned: a failed call is not remembered.
C4_NoPoisoning ==
    [][/\ \A p \in Procs :
             (pc[p] = "deleting" /\ pc'[p] = "idle") => ~Registered(sfM', pkey[p])
       /\ \A k \in DOMAIN sfM' : ~calls'[sfM'[k]].retired
       /\ \A p \in Procs :
             (pc[p] = "locked" /\ pc'[p] # "locked" /\ AllRetired(pkey[p])) =>
                 /\ pc'[p] = "fn"
                 /\ myCall'[p] = Len(calls) + 1
                 /\ calls'[myCall'[p]].out = Unset
       /\ \A p \in Procs :
             role'[p] = "leader" =>
                 /\ calls'[myCall'[p]].leader = p
                 /\ ret'[p] = calls'[myCall'[p]].out]_vars

\* C4 witness: a call for a key failed, and a later call for the same key ran
\* fn again and returned a value.
C4_Witness ==
    \E c1, c2 \in 1..Len(calls) :
        /\ c1 < c2 /\ calls[c1].key = calls[c2].key
        /\ calls[c1].retired /\ calls[c1].out = <<NoVal, "err">>
        /\ calls[c2].retired /\ calls[c2].out = <<"v", NoErr>>

\* C34: g.mu is held only between a Lock and the Unlock that follows it in
\* Do, never while fn runs or while a follower waits; a follower waits on the
\* latch of the call registered for its own key; and a Do that comes to the
\* table while only calls for other keys are in it registers its own call
\* and goes on to run its own fn, whatever the leaders of the other keys do.
C34_KeysIndependent ==
    /\ [](\A p \in Procs :
            /\ sfMu = p => pc[p] \in {"locked", "deleting"}
            /\ pc[p] = "wait" => calls[myCall[p]].key = pkey[p])
    /\ [][\A p \in Procs :
            (pc[p] = "locked" /\ pc'[p] # "locked" /\ ~Registered(sfM, pkey[p])) =>
                /\ pc'[p] = "fn" /\ sfMu' = "free"
                /\ calls'[myCall'[p]].key = pkey[p]
                /\ calls'[myCall'[p]].leader = p]_vars

\* The leader for "t" is inside fn with a follower waiting on its call, and a
\* Do for "j" that registered after it has run its own fn and returned.
C34_Witness ==
    \E p, q, f \in Procs :
        /\ pc[p] = "fn" /\ pkey[p] = "t"
        /\ pc[f] = "wait" /\ myCall[f] = myCall[p]
        /\ pc[q] = "idle" /\ role[q] = "leader" /\ pkey[q] = "j"
        /\ myCall[q] > myCall[p] /\ ret[q] = <<"v", NoErr>>

\* The call p waits on has its latch released, or its leader is still to
\* release it.
Signalled(p) ==
    \/ calls[myCall[p]].wg = 0
    \/ /\ pc[calls[myCall[p]].leader] \in {"fn", "assigned"}
       /\ myCall[calls[myCall[p]].leader] = myCall[p]

\* C39: with fn returning and the goroutines scheduled, every Do that was
\* called returns; a follower never waits on a call whose leader has gone by
\* its Done without releasing the latch, and a leader deletes its key only
\* once the latch of its call is released.
C39_DoReturns ==
    /\ [](\A p \in Procs :
            /\ pc[p] = "wait" => Signalled(p)
            /\ pc[p] \in {"relock", "deleting"} => calls[myCall[p]].wg = 0)
    /\ \A p \in Procs : (pc[p] # "idle") ~> (pc[p] = "idle")

\* A follower has returned from a call, and the leader of the call after it.
C39_Witness ==
    \E p, q \in Procs :
        /\ p # q /\ myCall[p] = myCall[q] /\ myCall[p] > 0
        /\ pc[p] = "idle" /\ role[p] = "follower"
        /\ pc[q] = "idle" /\ role[q] = "leader"
        /\ ~Registered(sfM, pkey[q])

\* ------------------------------------------------- claims on the containers

\* C5 (as claimed): in both variants nBytes is the sum of len(key) + len(value)
\* over the entries stored, after every operation.
C5_ByteAccounting ==
    /\ lru.nBytes = SumBytes(lru.ll)
    /\ ~lfu.panicked => lfu.nBytes = LfuSum(lfu)

\* C6 (as claimed): with maxBytes > 0, once Add has returned the entries stored
\* take at most maxBytes bytes, in both variants.
C6_CapacityBound ==
    /\ (lru.maxBytes > 0 /\ lruPc = "idle") => SumBytes(lru.ll) <= lru.maxBytes
    /\ (lfu.maxBytes > 0 /\ ~lfu.panicked) => LfuSum(lfu) <= lfu.maxBytes

\* C7 (as claimed): every RemoveOldest() the loop of the recency variant's Add
\* makes removes an entry, so the loop never goes round without progress.
C7_EvictionProgress == ~lruStalled

\* C8 (as claimed): an entry that the loop of the recency variant's Add evicts
\* is the least recently used one, the back of the list.
C8_EvictsFromBack ==
    [][(variant = "lru" /\ lruPc = "evict" /\ lru'.ll # lru.ll)
          => lru'.ll = SubSeq(lru.ll, 1, Len(lru.ll) - 1)]_vars

\* The entries of s have keys that differ from one another.
OncePerKey(s) == \A i, j \in 1..Len(s) : s[i].key = s[j].key => i = j

\* C31: in both variants the keys of the map are the keys of the ordering
\* structure (the list, the heap slice), each there once; in the frequency
\* variant every entry's index field is its slot in the slice and no entry has
\* a smaller freq than its parent's.
C31_Structure ==
    /\ KeysOf(lru.ll) = lru.cache /\ OncePerKey(lru.ll)
    /\ KeysOf(lfu.heap) = lfu.cache /\ OncePerKey(lfu.heap)
    /\ \A i \in 1..Len(lfu.heap) :
          /\ lfu.heap[i].index = i - 1
          /\ i > 1 => lfu.heap[i \div 2].freq <= lfu.heap[i].freq

\* The frequency variant holds three entries of which the one at the root has
\* been used less than both others, and the last slot more than once: Fix has
\* moved entries in the slice.
C31_Witness ==
    /\ variant = "lfu"
    /\ Len(lfu.heap) = 3
    /\ lfu.heap[1].freq < lfu.heap[2].freq
    /\ lfu.heap[3].freq > 1
    /\ lfu.heap[1].key = "cc"

\* --------------------------------------------- claims on the operations

\* The keys the container under test stores, and the entry it holds for one.
Stored == IF variant = "lru" THEN lru.cache ELSE lfu.cache
EntryOf(k) == IF variant = "lru" THEN lru.ll[LruIndex(lru, k)] ELSE LfuEntry(lfu, k)

\* C15: in both variants a Get that finds an entry whose expiresAt is earlier
\* than now reports a miss, the entry is gone from the container afterwards
\* and, a callback being set, OnEvicted was called once, for that key; a Get
\* that reports a hit found an entry that had not expired.
C15_ExpiredNeverReturned ==
    lastOp.op = "get" =>
        /\ lastOp.expired =>
              /\ ~lastOp.ok
              /\ lastOp.value = ""
              /\ lastOp.key \notin Stored
              /\ lastOp.key \notin KeysOf(IF variant = "lru" THEN lru.ll ELSE lfu.heap)
              /\ onEvicted => (Len(fired) = 1 /\ fired[1].key = lastOp.key
                                              /\ fired[1].cause = "expired")
        /\ lastOp.ok => (~lastOp.expired /\ lastOp.key \in Stored
                         /\ lastOp.value = EntryOf(lastOp.key).value)

\* A Get has found an expired entry, removed it and called the callback.
C15_Witness ==
    /\ lastOp.op = "get" /\ lastOp.expired /\ ~lastOp.ok
    /\ onEvicted /\ Len(fired) = 1
    /\ lastOp.key \notin Stored

Max(a, b) == IF a < b THEN b ELSE a

\* C16: in the recency variant no step decreases the expiresAt of an entry
\* that stays stored, and an Add on a stored key leaves the entry with the
\* later of its old expiresAt and the expiry the Add computed.
C16_ForwardOnly ==
    [][variant = "lru" =>
         \A k \in lru.cache \cap lru'.cache :
            /\ lru'.ll[LruIndex(lru', k)].expire >= lru.ll[LruIndex(lru, k)].expire
            /\ (lruPc = "idle" /\ lastOp'.op = "add" /\ lastOp'.key = k)
                  => lru'.ll[LruIndex(lru', k)].expire
                        = Max(lru.ll[LruIndex(lru, k)].expire, lastOp'.exp)
      ]_vars

\* An Add with an expiry earlier than the stored one has left the stored one.
C16_Witness ==
    /\ variant = "lru" /\ lastOp.op = "add" /\ lruPc = "idle"
    /\ lastOp.key \in lru.cache
    /\ lru.ll[LruIndex(lru, lastOp.key)].expire > lastOp.exp
    /\ lru.ll[LruIndex(lru, lastOp.key)].value = lastOp.value

\* C17, as stated: a Get(k) that follows an Add(k, v, ttl) that has returned,
\* with no operation in between and the clock not past the expiry the Add
\* computed, returns (v, true), in both variants.
C17_AddThenGet ==
    [][(lastOp.op = "add" /\ lruPc = "idle" /\ lastOp.exp >= now
        /\ lastOp'.op = "get" /\ lastOp'.key = lastOp.key)
          => (lastOp'.ok /\ lastOp'.value = lastOp.value)
      ]_vars

\* C17, amended: the same, in the frequency variant for an Add whose size
\* loop did not evict k itself (k is stored when the Add has returned).
C17_AddThenGetStored ==
    [][(lastOp.op = "add" /\ lruPc = "idle" /\ lastOp.exp >= now
        /\ lastOp'.op = "get" /\ lastOp'.key = lastOp.key
        /\ (variant = "lfu" => lastOp.key \in lfu.cache))
          => (lastOp'.ok /\ lastOp'.value = lastOp.value)
      ]_vars

\* An Add in the frequency variant has returned after evicting another entry,
\* the cache is at its budget, and a Get of the added key returns its value.
C17_Witness ==
    /\ variant = "lfu" /\ lastOp.op = "add" /\ lastOp.exp >= now
    /\ lfu.nBytes = lfu.maxBytes
    /\ onEvicted /\ fired # <<>>
    /\ lastOp.key \in lfu.cache
    /\ LfuGet(lfu, lastOp.key, now).ok
    /\ LfuGet(lfu, lastOp.key, now).value = lastOp.value

\* The key a step adds: the key of the Add whose insertion the step is.
AddedBy == IF lastOp'.op = "add" /\ lruPc = "idle" THEN {lastOp'.key} ELSE {}

\* The keys whose entries leave the container in a step.
Leaving == (Stored \cup AddedBy) \ Stored'

\* C19: with a callback set, a step of an operation calls OnEvicted exactly
\* once for every entry that leaves the container in it, with the entry's key
\* and value, and for no other key; and at each call the key is absent from
\* the map and from the ordering structure and nBytes is what it was less
\* the entry's bytes.
C19_OnEvicted ==
    [][(onEvicted /\ now' = now) =>
         /\ \A k \in Leaving :
               /\ Cardinality({i \in 1..Len(fired') : fired'[i].key = k}) = 1
               /\ \A i \in 1..Len(fired') : fired'[i].key = k =>
                     fired'[i].value = IF k \in AddedBy THEN lastOp'.value
                                       ELSE EntryOf(k).value
         /\ \A i \in 1..Len(fired') :
               /\ fired'[i].key \in Leaving
               /\ ~fired'[i].inMap /\ ~fired'[i].inOrder
               /\ fired'[i].nAt = fired'[i].nBefore
                                    - (Len(fired'[i].key) + Len(fired'[i].value))
      ]_vars

\* One Add has evicted two entries and the callback has been called for both.
C19_Witness ==
    /\ onEvicted /\ lastOp.op = "add" /\ Len(fired) = 2
    /\ fired[1].key # fired[2].key
    /\ fired[1].key \notin Stored /\ fired[2].key \notin Stored

\* The keys OnEvicted was called with, in the order of the calls.
FiredKeys == [i \in 1..Len(fired) |-> fired[i].key]

\* The operations of the script on key k.
ScriptOn(k) == {i \in 1..Len(script) : script[i][2] = k}

\* C18: in the frequency variant every eviction for size removes an entry
\* whose freq is the least of the entries present; the freq of an entry that
\* has never left the cache is the number of Adds and Gets of its key from
\* its insertion on; and Adds of key1, k2, k3, k4 in this order with
\* maxBytes = 10 evict key1, then k2, and nothing else.
C18_EvictsMinFreq ==
    /\ \A i \in 1..Len(fired) :
          fired[i].cause = "size" => fired[i].freq = fired[i].minFreq
    /\ \A k \in lfu.cache :
          k \notin {fired[i].key : i \in 1..Len(fired)} =>
             LfuEntry(lfu, k).freq =
                Cardinality({i \in ScriptOn(k) :
                                \E j \in ScriptOn(k) : j <= i /\ script[j][1] = "add"})
    /\ script = <<<<"add", "key1">>, <<"add", "k2">>, <<"add", "k3">>, <<"add", "k4">>>>
          => (FiredKeys = <<"key1", "k2">> /\ lfu.cache = {"k3", "k4"})

\* The four Adds of the test have been made.
C18_Witness ==
    /\ script = <<<<"add", "key1">>, <<"add", "k2">>, <<"add", "k3">>, <<"add", "k4">>>>
    /\ Len(fired) = 2

Loading(k) == {p \in GProcs : pc[p] \in FnPcs /\ pkey[p] = k}

\* C3, as stated: of two Gets of one key that overlapped after both had missed
\* the hot cache and the main cache, at most one invokes the loader.
C3_LoaderOncePerOverlap == \A pr \in coMiss : \E p \in pr : ~loaded[p]

\* C3, amended: a Get that has missed both caches and reaches the lookup of
\* Do while a call for its key is registered waits on that call, never invokes
\* the loader itself and returns what the call's leader loaded; and at no
\* moment do two Gets of one key run the loader.
C3_WindowCoalescing ==
    [][/\ \A q \in GProcs :
            /\ (pc[q] = "locked" /\ pc'[q] # "locked" /\ pkey[q] \in DOMAIN sfM)
                  => (pc'[q] = "wait" /\ myCall'[q] = sfM[pkey[q]])
            /\ (pc'[q] = "wait" \/ role'[q] = "follower") => ~loaded'[q]
            /\ (pc'[q] = "idle" /\ role'[q] = "follower")
                  => /\ calls'[myCall'[q]].leader # q
                     /\ calls'[myCall'[q]].key = pkey'[q]
                     /\ ret'[q] = calls'[myCall'[q]].out
                     /\ calls'[myCall'[q]].out # Unset
       /\ \A k \in GKeys : Cardinality(Loading(k)) <= 1 /\ Cardinality({p \in GProcs : pkey'[p] = k /\ pc'[p] \in FnPcs}) <= 1
      ]_vars

\* Two Gets of "t" overlapped after both missed; one loaded once and the other
\* returned the loaded bytes as a follower.
C3_Witness ==
    \E p, q \in GProcs :
        /\ {p, q} \in coMiss
        /\ pc[q] = "idle" /\ role[q] = "follower" /\ pkey[q] = "t"
        /\ ret[q] = <<"630", NoErr>>
        /\ loaded[p] /\ ~loaded[q]
        /\ loadCount["t"] = 1

\* C9: with no peer picker and one Get after the other, under both policies,
\* a Get of a key the loader knows returns the loader's bytes, the first one
\* after invoking the loader, and the loader is not invoked again for the key
\* unless its entry has left the main cache by expiry or eviction: the loader
\* count of a key whose entry never left stays at most 1, and a Get answered
\* from the cache has not invoked the loader.
C9_MissThenHit ==
    /\ \A p \in GProcs :
          /\ (pc[p] = "idle" /\ role[p] # "none" /\ pkey[p] \in DOMAIN DB)
                => (ret[p] = <<DB[pkey[p]], NoErr>> /\ loadCount[pkey[p]] >= 1)
          /\ role[p] = "hit" => ~loaded[p]
          /\ (pc[p] = "idle" /\ role[p] = "leader") => loaded[p]
    /\ \A k \in DOMAIN DB : loadCount[k] <= 1 + removed[k]

\* A second Get("t") was answered from the cache with the bytes the first
\* loaded, the loader count still 1.
C9_Witness ==
    \E p \in GProcs :
        /\ pc[p] = "idle" /\ role[p] = "hit" /\ pkey[p] = "t"
        /\ ret[p] = <<"630", NoErr>>
        /\ started = 2
        /\ loadCount["t"] = 1 /\ removed["t"] = 0

\* C10: a Get of a key for which the loader fails returns the loader's error,
\* no entry for the key is ever in the main cache or the hot cache, and no
\* Get of the key is answered from a cache: each one invokes the loader or
\* shares a concurrent Get's failed load.
C10_FailureNotCached ==
    \A k \in GKeys \ DOMAIN DB :
        /\ k \notin WStored(mainCache) /\ k \notin WStored(hotCache)
        /\ \A p \in GProcs : pkey[p] = k =>
              /\ pc[p] # "populate" /\ pc[p] # "evict"
              /\ role[p] # "hit"
              /\ (pc[p] = "idle" /\ role[p] # "none") => ret[p] = <<"", LoaderErr>>
              /\ (pc[p] = "idle" /\ role[p] = "leader") => loaded[p]
              /\ pc[p] \in {"assigned", "relock", "deleting"}
                    => calls[myCall[p]].err = LoaderErr
        /\ loadCount[k] = Cardinality({c \in DOMAIN calls :
                               calls[c].key = k /\ calls[c].out # Unset})

\* The second of two Gets of "u" has returned the loader's error after the
\* loader was invoked a second time; nothing was cached.
C10_Witness ==
    \E p \in GProcs :
        /\ pc[p] = "idle" /\ role[p] = "leader" /\ pkey[p] = "u"
        /\ ret[p] = <<"", LoaderErr>>
        /\ loadCount["u"] = 2
        /\ "u" \notin WStored(mainCache)

\* ------------------------------------------------- claims on the peers

\* What a Get did, of one kind.
Events(t, kind) == SelectSeq(t, LAMBDA e : e[1] = kind)

Did(t, e) == \E i \in 1..Len(t) : t[i] = e

\* The result of the getter for a key, as a Get returns it.
LocalResult(k) == IF Failed(Getter(k)) THEN <<"", Getter(k)[2]>> ELSE <<Getter(k)[1], NoErr>>

\* C11: when getFromPeer has returned an error on a peer, the next thing the
\* same load does on that peer is to call the getter, and the Get of a client
\* whose remote fetch failed returns what the getter returned: its value, or
\* its error, never the error of the remote fetch.
C11_RemoteFailureLoadsLocally ==
    /\ \A i \in 1..Len(trace) :
          trace[i][1] = "peererr"
             => IF i < Len(trace)
                THEN trace[i + 1][1] = "loader" /\ trace[i + 1][2] = trace[i][2]
                ELSE stack # <<>> /\ Top.pc = "local" /\ Top.node = trace[i][2]
    /\ (last.done /\ Did(trace, <<"peererr", last.node, "">>))
          => <<last.value, last.err>> = LocalResult(last.key)

\* A client's Get has returned the getter's value after its RPC failed.
C11_Witness ==
    /\ last.done
    /\ Events(trace, "rpc") # <<>>
    /\ Did(trace, <<"peererr", last.node, "">>)
    /\ last.err = NoErr
    /\ last.value = DB[last.key]

\* C12: PickPeer(key) returns (nil, false) when the ring maps the key to the
\* server's own address and when the ring is empty; in every other case it
\* returns true and the client handle of the owning address, which is not nil.
C12_PickPeerResult ==
    [][\A i \in (Len(trace) + 1)..Len(trace') :
          trace'[i][1] = "pick"
             => LET s == srv[trace'[i][2]]
                    r == trace'[i][3]
                    owner == RingGet(s.peers, Top.key)
                IN IF owner = s.self \/ Len(s.peers.keys) = 0
                   THEN r.peer = Nil /\ ~r.ok
                   ELSE r.ok /\ r.peer = owner /\ r.peer # Nil
      ]_vars

\* All peers hold the same ring.
SameRing == \A a, b \in Addrs : srv[a].peers = srv[b].peers

\* C13: no RPC goes to the address of its sender; and when all peers hold the
\* same ring, a client's Get on a peer with its picker registered that is not
\* the key's owner and missed both caches has, when it returns, made one RPC
\* in all, from that peer to the owner.
C13_SingleRemoteHop ==
    [][/\ \A i \in 1..Len(trace') : trace'[i][1] = "rpc" => trace'[i][2] # trace'[i][3]
       /\ (/\ stack # <<>> /\ stack' = <<>>
           /\ SameRing
           /\ grp[stack[1].node].peers
           /\ RingGet(srv[stack[1].node].peers, stack[1].key) \in Addrs \ {stack[1].node}
           /\ Did(trace, <<"main", stack[1].node, "miss">>))
             => Events(trace', "rpc") =
                  <<<<"rpc", stack[1].node, RingGet(srv[stack[1].node].peers, stack[1].key)>>>>
      ]_vars

\* A client's Get on a peer that is not the owner has returned the value the
\* owner had in its main cache.
C13_Witness ==
    /\ last.done
    /\ SameRing
    /\ last.err = NoErr
    /\ Len(Events(trace, "rpc")) = 1
    /\ \E o \in Addrs \ {last.node} :
          Did(trace, <<"rpc", last.node, o>>) /\ Did(trace, <<"main", o, "hit">>)

\* C20: a Get of a client with the empty key changes no group and no server:
\* no cache, no KeyStats, no single-flight table; it does nothing that is
\* recorded (no probe of a cache, no Do, no pick, no call of the getter), and
\* it returns the error "key is required" and no value.
C20_EmptyKeyRejected ==
    [][/\ ((stack # <<>> /\ stack[1].key = "") \/ (stack' # <<>> /\ stack'[1].key = ""))
             => grp' = grp /\ srv' = srv /\ fetched' = fetched /\ trace' = <<>>
       /\ (stack # <<>> /\ stack[1].key = "" /\ stack' = <<>>)
             => last' = [node |-> stack[1].node, key |-> "", value |-> "",
                         err |-> KeyRequired, done |-> TRUE]
      ]_vars

\* Get("") has returned on a peer whose main cache holds an entry.
C20_Witness ==
    /\ last.done
    /\ last.key = ""
    /\ last.err = KeyRequired
    /\ WStored(grp[last.node].mainCache) # {}

\* The entry a wrapper's container holds for k.
HEntry(w, k) == IF variant = "lru" THEN w.c.ll[LruIndex(w.c, k)] ELSE LfuEntry(w.c, k)

\* The keys the step writes to the hot cache of peer a: those stored after it
\* that were not stored before, or are stored with another value or expiry.
HotWrites(a) ==
    LET w == grp[a].hotCache
        x == grp'[a].hotCache
    IN {k \in WStored(x) :
          \/ k \notin WStored(w)
          \/ HEntry(x, k).value # HEntry(w, k).value
          \/ HEntry(x, k).expire # HEntry(w, k).expire}

\* The step calls populateHotCache(k, value) on peer a.
Promotes(a, k) == k \in HotWrites(a) \/ (~Did(trace, <<"promote", a, k>>) /\ Did(trace', <<"promote", a, k>>))

\* remoteCnt / max(1, round(minutes since firstGetTime)) >= 10 with the count
\* of this fetch added, the clock in ticks of which GroupTTL make a minute.
AtThreshold(stat) ==
    LET r == (2 * (now - stat.firstGetTime) + GroupTTL) \div (2 * GroupTTL)
    IN stat.remoteCnt + 1 >= maxMinuteRemoteQPS * (IF r < 1 THEN 1 ELSE r)

\* C32: the hot cache and the keys map of a peer are written only in the
\* part of getFromPeer that follows a remote fetch that succeeded.  There a
\* key that has no KeyStats gets them with count 1 and is not promoted; a key
\* is promoted only with KeyStats whose count, with this fetch, is at least
\* ten times max(1, round(minutes since the first fetch)); and when the fetch
\* that promoted returns the key's KeyStats are deleted.
C32_Promotion ==
    [][/\ \A a \in Addrs :
             (HotWrites(a) # {} \/ grp'[a].keys # grp[a].keys) =>
                 /\ stack # <<>> /\ Top.node = a
                 /\ Top.pc = "stat" \/ (Top.pc = "spin" /\ Top.spinOn = "hot")
                 /\ HotWrites(a) \subseteq {Top.key}
                 /\ \A k \in DOMAIN grp[a].keys \cup DOMAIN grp'[a].keys :
                       k # Top.key => /\ k \in DOMAIN grp[a].keys
                                      /\ k \in DOMAIN grp'[a].keys
                                      /\ grp'[a].keys[k] = grp[a].keys[k]
       /\ (stack # <<>> /\ Top.pc = "stat" /\ stack' # stack) =>
             LET a == Top.node
                 k == Top.key
                 after == stack'[Len(stack')]
             IN /\ k \notin DOMAIN grp[a].keys =>
                       /\ ~Promotes(a, k)
                       /\ k \in DOMAIN grp'[a].keys
                       /\ grp'[a].keys[k] = [firstGetTime |-> now, remoteCnt |-> 1]
                /\ Promotes(a, k) =>
                       /\ k \in DOMAIN grp[a].keys
                       /\ AtThreshold(grp[a].keys[k])
                       /\ after.pc = "ret" => k \notin DOMAIN grp'[a].keys
       /\ (stack # <<>> /\ Top.pc = "spin" /\ Top.spinOn = "hot" /\ stack' # stack
               /\ stack'[Len(stack')].pc = "ret") =>
             Top.key \notin DOMAIN grp'[Top.node].keys
      ]_vars

\* A fetch has promoted the key and returned: the hot cache of n1 stores the
\* key, its KeyStats are gone, and ten fetches have been counted.
C32_Witness ==
    /\ stack # <<>> /\ Top.pc = "ret" /\ Top.node = "n1"
    /\ Did(trace, <<"promote", "n1", "t">>)
    /\ "t" \in WStored(grp["n1"].hotCache)
    /\ "t" \notin DOMAIN grp["n1"].keys
    /\ Len(fetched["n1"]["t"]) = maxMinuteRemoteQPS

\* The bytes of the entries the hot cache of peer a holds.
HotHeld(a) ==
    LET w == grp[a].hotCache
    IN IF w.nil THEN 0
       ELSE IF variant = "lru" THEN SumBytes(w.c.ll) ELSE SumBytes(w.c.heap)

\* populateHotCache is running on peer a: its add is in the eviction loop.
HotAdding(a) == \E i \in 1..Len(stack) :
    stack[i].node = a /\ stack[i].pc = "spin" /\ stack[i].spinOn = "hot"

\* C33 (as claimed): in a group made with cacheBytes > 0 the hot cache holds
\* at most cacheBytes / 8 bytes whenever no add to it is running, for every
\* cacheBytes, those below 8 among them.
C33_HotBudget ==
    \A a \in Addrs :
        (grp[a].mainCache.cacheBytes > 0 /\ ~HotAdding(a)) =>
            HotHeld(a) <= grp[a].mainCache.cacheBytes \div 8

\* The bytes the user's loader produces for key k are what was returned.
FromLoader(k, value) == k \in DOMAIN DB /\ value = DB[k]

\* Every entry of the wrapper's container holds the loader's bytes for its key.
HoldsOwn(w) == \A k \in WStored(w) : FromLoader(k, HEntry(w, k).value)

HotFetches == fetched["n1"]["t"]

\* The step is the tenth successful remote fetch of the key, within a minute
\* (GroupTTL ticks) of the first.
TenthFetch ==
    /\ Len(HotFetches) = maxMinuteRemoteQPS - 1
    /\ Len(HotFetches') = maxMinuteRemoteQPS
    /\ HotFetches'[maxMinuteRemoteQPS] - HotFetches'[1] <= GroupTTL

\* Ten successful remote fetches of the key have happened within a minute of
\* the first.
TenFetched ==
    /\ Len(HotFetches) >= maxMinuteRemoteQPS
    /\ HotFetches[maxMinuteRemoteQPS] - HotFetches[1] <= GroupTTL

\* The key's entry is in the hot cache of n1 and has not expired.
HotFresh ==
    /\ "t" \in WStored(grp["n1"].hotCache)
    /\ LET c == grp["n1"].hotCache.c
           e == IF variant = "lru" THEN c.ll[LruIndex(c, "t")] ELSE LfuEntry(c, "t")
       IN ~Before(e.expire, now)

\* A Get of the key on n1 is answered by the hot cache alone.
HotAnswer ==
    /\ trace' = <<<<"hot", "n1", "hit">>>>
    /\ stack' = <<Returns(stack[1], DB["t"], NoErr)>>

\* The hot cache's budget is below the size of the key's entry.
HotTooSmall ==
    LET m == grp["n1"].hotCache.cacheBytes
    IN m # 0 /\ m < Len("t") + Len(DB["t"])

====
